---- MODULE Spec2Model ----
(***************************************************************************)
(* Model of the conversation orchestrator of the construction-materials    *)
(* bot: src/src/chains/orchestrator.py (OrchestratorChain.process), the    *)
(* chains it calls (classification, extraction, clarification), the        *)
(* specification model src/src/schemas/models.py, the RAG wrapper          *)
(* src/src/rag/api_wrapper.py, the mock catalog                            *)
(* src/src/database/products_api.py, and the vector index of the RAG       *)
(* system: src/src/rag/vectore_store.py (VectorStore) and                  *)
(* src/src/rag/retriver.py (Retriever) over one Qdrant client, the seeding  *)
(* of the product database, src/src/products/product_db.py, and the        *)
(* set-up of the RAG system, src/setup_rag.py (setup_rag_system), as the   *)
(* bot's constructor calls it (src/bot.py).                                *)
(*                                                                         *)
(* Python's Optional[T] is modelled as a sequence of length 0 or 1:        *)
(* None is <<>> and a present value v is <<v>>.                            *)
(***************************************************************************)
EXTENDS Naturals, Integers, Sequences, FiniteSets, TLC

VARIABLES
    session_specs,    \* OrchestratorChain.session_specs: session id -> Optional[OrderSpecs]
    rag_generator,    \* api_wrapper._rag_generator is set (TRUE) or still None (FALSE)
    pc,               \* position of each process() call
    sid,              \* process(): session_id
    query,            \* process(): query (a sequence of lower-case words)
    query_type,       \* process(): query_type
    existing_specs,   \* process(): existing_specs
    llm_out,          \* extract(): what chain.invoke returned (None: it raised)
    extracted_specs,  \* process(): extracted_specs
    clarify_call,     \* arguments of the generate_question call made in this turn
    catalog_call,     \* argument of the get_products call made in this turn
    response,         \* the BotResponse returned by process()
    failures,         \* collaborators whose call raised during this turn
    turns,            \* number of process() calls started so far
    llm_reply,        \* classify(): the reply chain.invoke is given to return (SpecClassify)
    catalog_result,   \* process(): products, what the get_products call of this turn returned
    collections,      \* the Qdrant client: collection name -> Optional[collection]
    vector_store,     \* the VectorStore object constructed last, if any
    index_call,       \* the last call made on the vector store or the retriever
    ingested,         \* collection name -> the inputs add_documents has run on, in order
    shared_qdrant_client, \* setup_rag._shared_qdrant_client: where the client stores, if any
    shared_qdrant_path,   \* setup_rag._shared_qdrant_path
    storage,          \* storage path -> the collections on disk left by a replaced client
    setup_call,       \* the last call of setup_rag_system
    product_db,       \* ProductDatabase: the rows of stores, products and store_products
    seed_call         \* the last call of seed_from_json

\* The state of setup_rag.py.
setup_vars == <<shared_qdrant_client, shared_qdrant_path, storage, setup_call>>

\* The state of src/src/products/product_db.py.
db_vars == <<product_db, seed_call>>

\* The state of the vector index and of its callers.
index_vars == <<collections, vector_store, index_call, ingested, setup_vars>>

vars == <<session_specs, rag_generator, pc, sid, query, query_type, existing_specs,
          llm_out, extracted_specs, clarify_call, catalog_call, response,
          failures, turns, llm_reply, catalog_result, index_vars, db_vars>>

----------------------------------------------------------------------------
(* Bounds *)

MaxTurns == 3

\* Calls on the vector store and the retriever in one run.
MaxCalls == 4

\* Calls of setup_rag_system in one process.
MaxSetups == 3

\* Calls of seed_from_json on one database.
MaxSeeds == 3

----------------------------------------------------------------------------
(* Optional values *)

None == <<>>
Some(x) == <<x>>
Val(o) == o[1]

\* Python truthiness of an Optional[str]: None and "" are falsy.
Truthy(o) == o # None /\ Val(o) # ""

----------------------------------------------------------------------------
(* src/src/schemas/models.py *)

DeliveryInfo(address, date) == [address |-> address, date |-> date]

ProductCharacteristics(mark, fraction, product_type) ==
    [mark |-> mark, fraction |-> fraction, product_type |-> product_type]

OrderSpecs(product_type, quantity, characteristics, delivery) ==
    [product_type |-> product_type, quantity |-> quantity,
     characteristics |-> characteristics, delivery |-> delivery]

\* OrderSpecs(): every field defaults to None.
EmptySpecs == OrderSpecs(None, None, None, None)

\* is_complete written with truthiness tests, as get_missing_fields is.
is_complete_truthy(self) ==
    /\ Truthy(self.product_type)
    /\ Truthy(self.quantity)
    /\ self.characteristics # None
    /\ Truthy(Val(self.characteristics).mark)

is_complete(self) ==
    /\ self.product_type # None
    /\ self.quantity # None
    /\ self.characteristics # None
    /\ Val(self.characteristics).mark # None

\* get_missing_fields with the first two tests in the other order.
get_missing_fields_reordered(self) ==
    (IF ~Truthy(self.quantity) THEN <<"quantity">> ELSE <<>>)
    \o (IF ~Truthy(self.product_type) THEN <<"product_type">> ELSE <<>>)
    \o (IF self.characteristics = None \/ ~Truthy(Val(self.characteristics).mark)
        THEN <<"characteristics.mark">> ELSE <<>>)

get_missing_fields(self) ==
    (IF ~Truthy(self.product_type) THEN <<"product_type">> ELSE <<>>)
    \o (IF ~Truthy(self.quantity) THEN <<"quantity">> ELSE <<>>)
    \o (IF self.characteristics = None \/ ~Truthy(Val(self.characteristics).mark)
        THEN <<"characteristics.mark">> ELSE <<>>)

BotResponse(message, needs_clarification, extracted, qtype) ==
    [message |-> message, needs_clarification |-> needs_clarification,
     extracted_specs |-> extracted, query_type |-> qtype]

----------------------------------------------------------------------------
(* Value domains of the model *)

Sessions == {"s1", "s2"}
Tasks == {"t1", "t2"}
MainTask == "t1"

OptStr(S) == {None} \cup {Some(v) : v \in S}

ProductTypes == {"", "beton"}
Quantities == {"5 kubov"}
Marks == {"", "M300", "M400"}
Fractions == {"20-40"}
Addresses == {"Moskva"}
Dates == {"zavtra"}

AllCharacteristics ==
    {ProductCharacteristics(m, f, None) : m \in OptStr(Marks), f \in OptStr(Fractions)}

AllDelivery ==
    {DeliveryInfo(a, d) : a \in OptStr(Addresses), d \in OptStr(Dates)}

\* Every OrderSpecs value over the domains above.
AllSpecs ==
    {OrderSpecs(p, q, c, d) :
        p \in OptStr(ProductTypes), q \in OptStr(Quantities),
        c \in {None} \cup {Some(x) : x \in AllCharacteristics},
        d \in {None} \cup {Some(x) : x \in AllDelivery}}

----------------------------------------------------------------------------
(* src/src/chains/extraction.py *)

\* The extracted value taken whether or not it is None.
MergeFieldOverwrite(extracted, existing) == extracted

\* "x if x is not None else e" (lines 104-105).
MergeField(extracted, existing) ==
    IF extracted # None THEN extracted ELSE existing

\* The characteristics object taken as a whole from the extraction.
MergeCharacteristicsWhole(extracted, existing) ==
    IF extracted # None THEN extracted ELSE existing

\* Lines 108-117: characteristics are rebuilt field by field.
MergeCharacteristics(extracted, existing) ==
    IF extracted # None \/ existing # None
    THEN Some(ProductCharacteristics(
            IF extracted # None /\ Val(extracted).mark # None
            THEN Val(extracted).mark
            ELSE (IF existing # None THEN Val(existing).mark ELSE None),
            IF extracted # None /\ Val(extracted).fraction # None
            THEN Val(extracted).fraction
            ELSE (IF existing # None THEN Val(existing).fraction ELSE None),
            IF extracted # None /\ Val(extracted).product_type # None
            THEN Val(extracted).product_type
            ELSE (IF existing # None THEN Val(existing).product_type ELSE None)))
    ELSE None

\* Lines 120-127: delivery is rebuilt field by field.
MergeDelivery(extracted, existing) ==
    IF extracted # None \/ existing # None
    THEN Some(DeliveryInfo(
            IF extracted # None /\ Val(extracted).address # None
            THEN Val(extracted).address
            ELSE (IF existing # None THEN Val(existing).address ELSE None),
            IF extracted # None /\ Val(extracted).date # None
            THEN Val(extracted).date
            ELSE (IF existing # None THEN Val(existing).date ELSE None)))
    ELSE None

\* Lines 101-137: the merged OrderSpecs of an extraction result and the
\* existing specification.
MergeSpecs(extracted, existing) ==
    OrderSpecs(MergeField(extracted.product_type, existing.product_type),
               MergeField(extracted.quantity, existing.quantity),
               MergeCharacteristics(extracted.characteristics, existing.characteristics),
               MergeDelivery(extracted.delivery, existing.delivery))

\* An except branch that always returns OrderSpecs().
ExtractFallbackEmpty(existing) == EmptySpecs

\* Lines 140-145: the except branch of extract().
ExtractFallback(existing) ==
    IF existing # None THEN Val(existing) ELSE EmptySpecs

\* extract() without the merge of lines 101-137.
extract_unmerged(invoked, existing) ==
    IF invoked = None THEN ExtractFallback(existing) ELSE Val(invoked)

\* ExtractionChain.extract(query, existing_specs). invoked is what
\* chain.invoke(query) produced: Some(OrderSpecs), or None when the completion
\* call or the output parser raised inside the try block.
extract(invoked, existing) ==
    IF invoked = None
    THEN ExtractFallback(existing)
    ELSE IF existing # None
         THEN MergeSpecs(Val(invoked), Val(existing))
         ELSE Val(invoked)

----------------------------------------------------------------------------
(* src/src/chains/classification.py *)

\* Texts are sequences of words; the words that contain a shorter search
\* term of the code as a substring are listed here.
SubstringsOf(word) ==
    {word} \cup (IF word = "zakazat" THEN {"zakaz"} ELSE {})

\* Python's "needle in text".
Contains(text, needle) ==
    \E i \in DOMAIN text : needle \in SubstringsOf(text[i])

LowerTable ==
    [w \in {"Informational", "Order_specification", "Hochu", "Beton"} |->
        CASE w = "Informational" -> "informational"
          [] w = "Order_specification" -> "order_specification"
          [] w = "Hochu" -> "hochu"
          [] w = "Beton" -> "beton"]

\* str.lower() on one word.
LowerWord(w) == IF w \in DOMAIN LowerTable THEN LowerTable[w] ELSE w

\* str.lower() on a text.
Lower(text) == [i \in DOMAIN text |-> LowerWord(text[i])]

\* Line 67: ordering_keywords.
ordering_keywords ==
    {"nuzhen", "nuzhno", "hochu", "zakazat", "kupit", "trebuetsya"}

\* classify with the else branch of line 65 always answering
\* order_specification.
classify_order_default(reply, q) ==
    LET result == Lower(reply) IN
    IF Contains(result, "informational") \/ Contains(result, "informatsionnyy")
    THEN "informational"
    ELSE "order_specification"

\* ClassificationChain.classify, lines 57-70, given the reply of the chain.
classify(reply, q) ==
    LET result == Lower(reply) IN
    IF Contains(result, "informational") \/ Contains(result, "informatsionnyy")
    THEN "informational"
    ELSE IF \/ Contains(result, "order_specification")
            \/ Contains(result, "spetsifikatsiya")
            \/ Contains(result, "zakaz")
         THEN "order_specification"
         ELSE IF \E keyword \in ordering_keywords : Contains(Lower(q), keyword)
              THEN "order_specification"
              ELSE "informational"

----------------------------------------------------------------------------
(* Messages: the kind of text and the items it lists *)

Message(kind, items) == [kind |-> kind, items |-> items]

----------------------------------------------------------------------------
(* src/src/rag/api_wrapper.py *)

\* query_rag raising when nothing was retrieved.
query_rag_raising_on_empty(initialized, generated) ==
    IF ~initialized \/ generated = None \/ Val(generated) = <<>>
    THEN None
    ELSE Some(Message("rag_context", Val(generated)))

\* query_rag, lines 51-69. generated is what _rag_generator.generate returned:
\* Some(retrieved documents) or None when it raised. The result is
\* Some(message), or None when query_rag raises.
query_rag(initialized, generated) ==
    IF ~initialized
    THEN None
    ELSE IF generated = None
         THEN None
         ELSE IF Val(generated) # <<>>
              THEN Some(Message("rag_context", Val(generated)))
              ELSE Some(Message("not_found", <<>>))

----------------------------------------------------------------------------
(* src/src/database/products_api.py *)

Product(id, product_type, mark, fraction) ==
    [id |-> id, product_type |-> product_type, mark |-> mark, fraction |-> fraction]

\* Lines 30-116.
mock_products ==
    << Product(1, "beton", Some("M300"), None),
       Product(2, "beton", Some("M350"), None),
       Product(3, "beton", Some("M400"), None),
       Product(4, "pesok", None, Some("0-5")),
       Product(5, "pesok", None, Some("0-2")),
       Product(6, "scheben", None, Some("20-40")),
       Product(7, "scheben", None, Some("5-20")),
       Product(8, "graviy", None, Some("20-40")) >>

\* Lines 121-143: the product passes the three filters.
ProductMatches(product, specs) ==
    /\ Truthy(specs.product_type)
         => LowerWord(product.product_type) = LowerWord(Val(specs.product_type))
    /\ (specs.characteristics # None /\ Truthy(Val(specs.characteristics).mark))
         => ~(Truthy(product.mark) /\ product.mark # Val(specs.characteristics).mark)
    /\ (specs.characteristics # None /\ Truthy(Val(specs.characteristics).fraction))
         => ~(Truthy(product.fraction)
              /\ product.fraction # Val(specs.characteristics).fraction)

\* get_products, lines 118-155.
get_products(specs) ==
    LET filtered == SelectSeq(mock_products, LAMBDA p : ProductMatches(p, specs))
        by_type  == SelectSeq(mock_products,
                        LAMBDA p : LowerWord(p.product_type)
                                     = LowerWord(Val(specs.product_type)))
        second   == IF filtered = <<>> /\ Truthy(specs.product_type)
                    THEN by_type ELSE filtered
    IN  IF second = <<>> THEN SubSeq(mock_products, 1, 3) ELSE second

----------------------------------------------------------------------------
(* src/src/chains/orchestrator.py *)

\* _format_products_response without the branch of lines 152-153.
format_products_response_listing(products) ==
    Message("products", [i \in DOMAIN products |-> products[i].id])

\* _format_products_response, lines 152-177.
format_products_response(products) ==
    IF products = <<>>
    THEN Message("no_products", <<>>)
    ELSE Message("products", [i \in DOMAIN products |-> products[i].id])

\* Lines 84-89.
RagResponse(rag_response) ==
    BotResponse(rag_response, FALSE, None, "informational")

\* The except branch answering like a clarification.
RagErrorResponseClarify ==
    BotResponse(Message("apology", <<>>), TRUE, None, "informational")

\* Lines 90-96: the except branch around query_rag.
RagErrorResponse ==
    BotResponse(Message("apology", <<>>), FALSE, None, "informational")

\* Lines 118-123.
ClarificationResponse(question, specs) ==
    BotResponse(question, TRUE, Some(specs), "order_specification")

\* Lines 134-139.
ProductsResponse(message, specs) ==
    BotResponse(message, FALSE, Some(specs), "order_specification")

\* The two branches of line 111 exchanged.
NextStepInverted(specs) ==
    IF is_complete(specs) THEN "clarifying" ELSE "fulfilling"

\* Line 111: the branch taken after the merged specification is stored.
NextStep(specs) ==
    IF ~is_complete(specs) THEN "clarifying" ELSE "fulfilling"

----------------------------------------------------------------------------
(* Inputs *)

\* User messages: one with an ordering keyword, one without.
Queries == { <<"Hochu", "zakazat", "beton", "M300">>, <<"chto", "takoe", "graviy">> }

\* Replies of the classification completion call.
Replies == { <<"Informational">>, <<"order_specification">>, <<"zakaz">>,
             <<"ne", "znayu">> }

\* Results of RAGGenerator.generate: the texts of the retrieved documents.
Retrievals == { <<>>, <<"doc1">>, <<"doc1", "doc2">> }

X_turn1 == OrderSpecs(Some("beton"), None,
                      Some(ProductCharacteristics(Some("M300"), None, None)), None)
X_quantity == OrderSpecs(None, Some("5 kubov"), None, None)
X_fraction == OrderSpecs(None, None,
                         Some(ProductCharacteristics(None, Some("20-40"), None)), None)
X_mark == OrderSpecs(None, None,
                     Some(ProductCharacteristics(Some("M400"), None, None)), None)
X_blank == OrderSpecs(Some(""), None, None, None)
X_address == OrderSpecs(None, None, None, Some(DeliveryInfo(Some("Moskva"), None)))

\* Structured outputs of the extraction completion call used in Spec.
Extractions == {EmptySpecs, X_turn1, X_quantity, X_fraction, X_mark, X_blank, X_address}

----------------------------------------------------------------------------
(* src/src/rag/vectore_store.py, src/src/rag/retriver.py: the vector index  *)
(*                                                                         *)
(* A vector is a sequence of integers. All embeddings of the tables below  *)
(* have the same length 5, so the cosine similarity of two of them is      *)
(* their dot product divided by 25: scores are kept as that numerator.     *)
(* The dimensions of the two embedding models (1024 and 768) are scaled    *)
(* down to 3 and 2.                                                        *)

\* The collection names used by setup_rag.py and by test_retriever.py.
CollectionNames == {"construction_materials", "test_construction_materials"}

\* Embedding models: the default of VectorStore and the one of config.py.
ModelNames == {"stsb-roberta-large", "deepvk/USER2-base"}

\* SentenceTransformer.get_sentence_embedding_dimension (vectore_store.py line 87).
embedding_dimension(model_name) ==
    IF model_name = "stsb-roberta-large" THEN 3 ELSE 2

\* One record (line) of a JSONL input; content is the sequence of its
\* paragraphs, the empty sequence being the empty string.
Doc(url, content, error, timestamp) ==
    [url |-> url, content |-> content, error |-> error, timestamp |-> timestamp]

\* JSONL inputs: a crawl, the same crawl with the text of one chunk changed,
\* a crawl with a failed and an empty record, one with no usable record,
\* and one whose record has the empty string as error.
raw_v1 == << Doc("u/beton", <<"beton M300", "beton M400">>, None, 1),
             Doc("u/pesok", <<"pesok">>, None, 1) >>
raw_v2 == << Doc("u/beton", <<"beton M300", "beton M500">>, None, 1),
             Doc("u/pesok", <<"pesok">>, None, 1) >>
raw_err == << Doc("u/err", <<"sheben">>, Some("timeout"), 1),
              Doc("u/empty", <<>>, None, 1),
              Doc("u/sheben", <<"sheben">>, None, 1) >>
raw_none == << Doc("u/err", <<"sheben">>, Some("timeout"), 1) >>
raw_blank_error == << Doc("u/sheben", <<"sheben">>, Some(""), 1) >>

JsonlInputs == {raw_v1, raw_v2, raw_err, raw_none, raw_blank_error}

\* Queries given to the retriever.
RetrieverQueries == {"beton M400 harakteristiki", "graviy", "pesok karernyy"}

\* top_k of the retriever test (2), the default of retrieve (5), and 1.
TopKs == {1, 2, 5}

\* load_documents not looking at the error of a record.
load_documents_ignoring_error(jsonl) ==
    SelectSeq(jsonl, LAMBDA doc : doc.content # <<>>)

\* load_documents, lines 116-124: the records with content and no error.
load_documents(jsonl) ==
    SelectSeq(jsonl, LAMBDA doc : doc.content # <<>> /\ ~Truthy(doc.error))

\* split_text, line 136: each paragraph of the inputs fits one chunk; the
\* splitter drops empty pieces.
split_text(content) == SelectSeq(content, LAMBDA piece : piece # "")

\* SentenceTransformer.encode with the model of two dimensions.
Embedding2(text) ==
    CASE text = "beton M300" -> <<4, 3>>
      [] text = "beton M400" -> <<3, 4>>
      [] text = "beton M500" -> <<0, 5>>
      [] text = "pesok" -> <<-3, 4>>
      [] text = "sheben" -> <<-4, 3>>
      [] text = "beton M400 harakteristiki" -> <<3, 4>>
      [] text = "graviy" -> <<0, 5>>
      [] text = "pesok karernyy" -> <<-5, 0>>

\* embed_texts (lines 148-149) and embed_query (retriver.py lines 74-75) for
\* one text.
embed(model_name, text) ==
    IF embedding_dimension(model_name) = 2
    THEN Embedding2(text)
    ELSE Embedding2(text) \o <<0>>

\* hashlib.md5(chunk.encode()).hexdigest()[:8] on the chunks of the inputs.
md5_8(chunk) ==
    CASE chunk = "beton M300" -> "d76fbf3c"
      [] chunk = "beton M400" -> "9a0d80d8"
      [] chunk = "beton M500" -> "b2ef9567"
      [] chunk = "pesok" -> "01254157"
      [] chunk = "sheben" -> "0ece2cb5"

\* Line 179: the string "{url}_{doc_idx}_{chunk_idx}_{md5(chunk)[:8]}", kept
\* as the tuple of its parts.
unique_id_string(url, doc_idx, chunk_idx, chunk) ==
    <<url, doc_idx, chunk_idx, md5_8(chunk)>>

\* hashlib.md5(s.encode()).hexdigest()[:15] on the id strings the records of
\* the inputs get, whichever of them are loaded.
md5_15(s) ==
    CASE s = <<"u/beton", 0, 0, "d76fbf3c">> -> "a5e194a5eedeb2d"
      [] s = <<"u/beton", 0, 1, "9a0d80d8">> -> "a503afcc2dd2957"
      [] s = <<"u/beton", 0, 1, "b2ef9567">> -> "7a07897c56eb812"
      [] s = <<"u/pesok", 1, 0, "01254157">> -> "329de402b25cccf"
      [] s = <<"u/sheben", 0, 0, "0ece2cb5">> -> "bfdddbe991fd70f"
      [] s = <<"u/sheben", 1, 0, "0ece2cb5">> -> "d69553c0144b2b8"
      [] s = <<"u/sheben", 2, 0, "0ece2cb5">> -> "50e83d2a5c09205"
      [] s = <<"u/err", 0, 0, "0ece2cb5">> -> "36e24624d34166c"

\* A point id drawn afresh at every call instead of derived from the content.
point_id_per_call(url, doc_idx, chunk_idx, chunk) ==
    <<index_call.n, url, doc_idx, chunk_idx>>

\* Line 180: point_id, the first 15 hex digits read as an integer (kept as
\* the digits).
point_id(url, doc_idx, chunk_idx, chunk) ==
    md5_15(unique_id_string(url, doc_idx, chunk_idx, chunk))

\* Lines 182-197: the PointStruct of one chunk.
PointStruct(model_name, doc, doc_idx, chunk_idx, chunk) ==
    [id |-> point_id(doc.url, doc_idx, chunk_idx, chunk),
     vector |-> embed(model_name, chunk),
     payload |-> [url |-> doc.url, timestamp |-> doc.timestamp,
                  chunk_index |-> chunk_idx, doc_index |-> doc_idx,
                  text |-> chunk]]

\* Lines 160-197: the points of an input; doc_idx and chunk_idx count from 0
\* over the loaded documents and over the chunks of each.
points_of(model_name, jsonl) ==
    LET documents == load_documents(jsonl) IN
    UNION { { PointStruct(model_name, documents[d], d - 1, c - 1,
                          split_text(documents[d].content)[c]) :
                c \in DOMAIN split_text(documents[d].content) } :
            d \in DOMAIN documents }

\* A Qdrant collection: the vector size it was created with and its points.
Collection(size, points) == [size |-> size, points |-> points]

\* QdrantClient.upsert (lines 202-205): a point replaces the stored point of
\* the same id.
upsert(collection, points) ==
    [collection EXCEPT !.points =
        {p \in @ : \A n \in points : n.id # p.id} \cup points]

\* QdrantClient.upsert and search accept only vectors of the collection's size.
SizeMatches(collection, vector) == Len(vector) = collection.size

\* get_collection_info()['points_count'] (lines 210-212): count().
count(collection) == Cardinality(collection.points)

\* The numerator of the cosine similarity of two vectors of equal dimension.
cosine(u, v) ==
    LET Dot[i \in 0..Len(u)] == IF i = 0 THEN 0 ELSE Dot[i - 1] + u[i] * v[i]
    IN  Dot[Len(u)]

\* A search result of Qdrant: id, score and payload of a stored point.
ScoredPoint(point, query_vector) ==
    [id |-> point.id, score |-> cosine(query_vector, point.vector),
     payload |-> point.payload]

Min(a, b) == IF a <= b THEN a ELSE b

\* QdrantClient.search (retriver.py lines 93-98): the possible results, the
\* limit best-scored points, best first; points of equal score come in any
\* order.
search(collection, query_vector, limit) ==
    LET n == Min(limit, count(collection))
        hits == {ScoredPoint(p, query_vector) : p \in collection.points}
    IN  { r \in [1..n -> hits] :
            /\ \A i, j \in 1..n : i < j => r[i].id # r[j].id /\ r[i].score >= r[j].score
            /\ \A h \in hits :
                  (\A i \in 1..n : r[i].id # h.id) =>
                      \A i \in 1..n : h.score <= r[i].score }

\* Retriever.retrieve with the results listed last first.
format_results_reversed(search_results) ==
    [i \in DOMAIN search_results |->
        LET result == search_results[Len(search_results) + 1 - i] IN
        [id |-> result.id, score |-> result.score, text |-> result.payload.text,
         url |-> result.payload.url, timestamp |-> result.payload.timestamp,
         chunk_index |-> result.payload.chunk_index,
         doc_index |-> result.payload.doc_index]]

\* Retriever.retrieve, lines 100-112: one dictionary per search result.
format_results(search_results) ==
    [i \in DOMAIN search_results |->
        LET result == search_results[i] IN
        [id |-> result.id, score |-> result.score, text |-> result.payload.text,
         url |-> result.payload.url, timestamp |-> result.payload.timestamp,
         chunk_index |-> result.payload.chunk_index,
         doc_index |-> result.payload.doc_index]]

\* The record of a call on the index: n counts the calls made so far,
\* created tells that create_collection was called, raised that the call
\* ended in an exception; search_results is what the index returned to
\* retrieve and results what retrieve returned.
IndexCall(n, op, input, created, raised, search_results, results) ==
    [n |-> n, op |-> op, input |-> input, created |-> created,
     raised |-> raised, search_results |-> search_results, results |-> results]

\* setup_rag.py line 10, and a second storage path.
DEFAULT_QDRANT_STORAGE_PATH == "data/qdrant_storage"
StoragePaths == {DEFAULT_QDRANT_STORAGE_PATH, "data/qdrant_test"}

\* QdrantClient(":memory:"): the place an in-memory client stores at.
InMemory == ":memory:"

\* config.py: EMBEDDING_MODEL.
EMBEDDING_MODEL == "deepvk/USER2-base"

\* A client or a storage directory with no collection.
NoCollections == [name \in CollectionNames |-> None]

\* The record of a call of setup_rag_system: its arguments, the place the
\* client it worked on stores at, points_count as read at line 141, whether
\* add_documents was called (line 144) and whether the call raised.
SetupCall(n, use_in_memory, qdrant_storage_path, data_path, embedding_model, client, points_count, loaded, raised) ==
    [n |-> n, use_in_memory |-> use_in_memory,
     qdrant_storage_path |-> qdrant_storage_path, data_path |-> data_path,
     embedding_model |-> embedding_model, client |-> client,
     points_count |-> points_count, loaded |-> loaded, raised |-> raised]

\* setup_rag.py lines 14-15, and storage directories holding nothing.
InitSetup ==
    /\ shared_qdrant_client = None
    /\ shared_qdrant_path = None
    /\ storage = [path \in StoragePaths |-> NoCollections]
    /\ setup_call = SetupCall(0, FALSE, "", <<>>, "", "", 0, FALSE, FALSE)

InitIndex ==
    /\ collections = NoCollections
    /\ vector_store = None
    /\ index_call = IndexCall(0, "none", <<>>, FALSE, FALSE, <<>>, <<>>)
    /\ ingested = [name \in CollectionNames |-> <<>>]
    /\ InitSetup

\* QdrantClient.get_collection raises when the collection does not exist.
get_collection_raises(colls, collection_name) == colls[collection_name] = None

\* _create_collection replacing the collection by an empty one at every
\* construction.
VectorStore_recreate_collection(colls, collection_name, embedding_dim) ==
    [colls EXCEPT ![collection_name] = Some(Collection(embedding_dim, {}))]

\* VectorStore._create_collection, lines 92-104: the collections of the
\* client afterwards.
VectorStore_create_collection(colls, collection_name, embedding_dim) ==
    IF get_collection_raises(colls, collection_name)
    THEN [colls EXCEPT ![collection_name] = Some(Collection(embedding_dim, {}))]
    ELSE colls

\* The variables of the orchestrator.
orch_vars == <<session_specs, rag_generator, pc, sid, query, query_type, existing_specs,
               llm_out, extracted_specs, clarify_call, catalog_call, response,
               failures, turns, llm_reply, catalog_result>>

\* VectorStore.__init__, lines 53-90, on the shared client.
NewVectorStore(collection_name, model_name) ==
    /\ index_call.n < MaxCalls
    /\ collections' = VectorStore_create_collection(
                          collections, collection_name, embedding_dimension(model_name))
    /\ vector_store' = Some([collection_name |-> collection_name,
                             model_name |-> model_name,
                             embedding_dim |-> embedding_dimension(model_name)])
    /\ index_call' = IndexCall(index_call.n + 1, "VectorStore",
                               <<collection_name, model_name>>,
                               get_collection_raises(collections, collection_name),
                               FALSE, <<>>, <<>>)
    /\ UNCHANGED <<ingested, setup_vars, orch_vars, db_vars>>

\* VectorStore.add_documents, lines 151-206. The upsert raises when the
\* collection is gone or a vector has not the collection's size.
AddDocuments(jsonl) ==
    /\ vector_store # None
    /\ index_call.n < MaxCalls
    /\ LET self == Val(vector_store)
           name == self.collection_name
           points == points_of(self.model_name, jsonl)
           raises == /\ points # {}
                     /\ \/ collections[name] = None
                        \/ \E p \in points :
                              ~SizeMatches(Val(collections[name]), p.vector)
       IN  /\ collections' =
                 IF points = {} \/ raises
                 THEN collections
                 ELSE [collections EXCEPT ![name] = Some(upsert(Val(@), points))]
           /\ ingested' =
                 IF raises THEN ingested
                 ELSE [ingested EXCEPT ![name] = Append(@, jsonl)]
           /\ index_call' = IndexCall(index_call.n + 1, "add_documents", jsonl,
                                      FALSE, raises, <<>>, <<>>)
    /\ UNCHANGED <<vector_store, setup_vars, orch_vars, db_vars>>

\* VectorStore.delete_collection, lines 217-220.
DeleteCollection ==
    /\ vector_store # None
    /\ index_call.n < MaxCalls
    /\ LET name == Val(vector_store).collection_name IN
        /\ collections' = [collections EXCEPT ![name] = None]
        /\ ingested' = [ingested EXCEPT ![name] = <<>>]
    /\ index_call' = IndexCall(index_call.n + 1, "delete_collection", <<>>,
                               FALSE, FALSE, <<>>, <<>>)
    /\ UNCHANGED <<vector_store, setup_vars, orch_vars, db_vars>>

\* Retriever.retrieve, retriver.py lines 77-112, of a retriever built on the
\* store's client, collection and model (setup_rag.py lines 152-158). The
\* search raises when the collection is gone or the query vector has not
\* the collection's size.
RetrieverRetrieve(q, top_k) ==
    /\ vector_store # None
    /\ index_call.n < MaxCalls
    /\ LET self == Val(vector_store)
           name == self.collection_name
           query_vector == embed(self.model_name, q)
       IN  IF \/ collections[name] = None
              \/ ~SizeMatches(Val(collections[name]), query_vector)
           THEN index_call' = IndexCall(index_call.n + 1, "retrieve", <<q, top_k>>,
                                       FALSE, TRUE, <<>>, <<>>)
           ELSE \E search_results \in search(Val(collections[name]), query_vector, top_k) :
                   index_call' = IndexCall(index_call.n + 1, "retrieve", <<q, top_k>>,
                                           FALSE, FALSE, search_results,
                                           format_results(search_results))
    /\ UNCHANGED <<collections, vector_store, ingested, setup_vars, orch_vars, db_vars>>

----------------------------------------------------------------------------
(* src/setup_rag.py *)

\* Line 142 loading at every set-up.
needs_loading_always(points_count) == TRUE

\* Line 142: the documents are loaded when the collection holds no point.
needs_loading(points_count) == points_count = 0

\* Lines 105-123: the call takes the shared client instead of creating one.
reuses_client(use_in_memory, qdrant_storage_path) ==
    IF use_in_memory
    THEN shared_qdrant_client # None
    ELSE ~(shared_qdrant_client = None
           \/ shared_qdrant_path # Some(qdrant_storage_path))

\* setup_rag_system, lines 102-163, but for the variables of the
\* orchestrator. A persistent client writes through to its directory, which
\* a later client opened at the same path reads; an in-memory client starts
\* with no collection. add_documents raises, and the call with it, when the
\* collection has not the dimension of the embedding model.
setup_rag_system(use_in_memory, data_path, qdrant_storage_path, embedding_model) ==
    /\ setup_call.n < MaxSetups
    /\ LET reuse == reuses_client(use_in_memory, qdrant_storage_path)
           client == IF reuse THEN Val(shared_qdrant_client)
                     ELSE IF use_in_memory THEN InMemory ELSE qdrant_storage_path
           on_disk == IF shared_qdrant_client # None
                         /\ Val(shared_qdrant_client) \in StoragePaths
                      THEN [storage EXCEPT ![Val(shared_qdrant_client)] = collections]
                      ELSE storage
           opened == IF reuse THEN collections
                     ELSE IF use_in_memory THEN NoCollections
                     ELSE on_disk[qdrant_storage_path]
           name == "construction_materials"
           dim == embedding_dimension(embedding_model)
           created == VectorStore_create_collection(opened, name, dim)
           points_count == count(Val(created[name]))
           points == points_of(embedding_model, data_path)
           loads == needs_loading(points_count)
           raises == /\ loads
                     /\ \E p \in points : ~SizeMatches(Val(created[name]), p.vector)
       IN  /\ shared_qdrant_client' = Some(client)
           /\ shared_qdrant_path' =
                 IF ~use_in_memory /\ ~reuse THEN Some(qdrant_storage_path)
                 ELSE shared_qdrant_path
           /\ storage' = on_disk
           /\ collections' =
                 IF loads /\ ~raises /\ points # {}
                 THEN [created EXCEPT ![name] = Some(upsert(Val(@), points))]
                 ELSE created
           /\ vector_store' =
                 IF raises THEN vector_store
                 ELSE Some([collection_name |-> name, model_name |-> embedding_model,
                            embedding_dim |-> dim])
           /\ ingested' =
                 LET history == IF reuse THEN ingested
                                ELSE [n \in CollectionNames |-> <<>>]
                 IN  IF loads /\ ~raises
                     THEN [history EXCEPT ![name] = Append(@, data_path)]
                     ELSE history
           /\ setup_call' = SetupCall(setup_call.n + 1, use_in_memory,
                                      qdrant_storage_path, data_path, embedding_model,
                                      client, points_count, loads, raises)
    /\ UNCHANGED index_call

\* setup_rag_system called on its own (langchain_integration_example.py,
\* inspect_database.py).
SetupRagSystem(use_in_memory, data_path, qdrant_storage_path, embedding_model) ==
    /\ setup_rag_system(use_in_memory, data_path, qdrant_storage_path, embedding_model)
    /\ UNCHANGED <<orch_vars, db_vars>>

----------------------------------------------------------------------------
(* src/src/products/product_db.py *)

\* One product of a seed file: p['category'], p['model'], p['price'].
SeedProduct(category, model, price) ==
    [category |-> category, model |-> model, price |-> price]

\* An entry of seeds_dir: its name, as stem and extension, and for a seed
\* file the store -> products structure json.load returns.
SeedFile(name, store_name, products) ==
    [name |-> name, store_name |-> store_name, products |-> products]

seed_a == SeedFile(<<"stroymarket", ".json">>, "StroyMarket",
                   << SeedProduct("beton", "B20", 4300),
                      SeedProduct("pesok", "mytyy", 630) >>)
seed_b == SeedFile(<<"betonzavod", ".json">>, "BetonZavod",
                   << SeedProduct("beton", "B20", 4100) >>)
readme == SeedFile(<<"README", ".md">>, "", <<>>)

\* The file add_sample_data writes, lines 61-67 and 70.
sample == SeedFile(<<"s", ".json">>, "StroyMarket 1",
                   << SeedProduct("beton", "B20", 4300),
                      SeedProduct("pesok", "mytyy", 630) >>)

\* Seed directories: empty, one seed file, two, a seed file and another
\* file, and no seed file.
SeedDirs == { {}, {seed_a}, {seed_a, seed_b}, {seed_b, readme}, {readme} }

\* os.listdir (line 21) lists the entries in arbitrary order.
listdir(seeds_dir) ==
    { listing \in [1..Cardinality(seeds_dir) -> seeds_dir] :
        \A i, j \in DOMAIN listing : i # j => listing[i] # listing[j] }

\* Line 22: f.endswith('.json').
endswith_json(f) == f.name[2] = ".json"

\* The tables; the id of a row is its position.
EmptyDb == [stores |-> <<>>, products |-> <<>>, offers |-> <<>>]

\* Lines 34-53: the loop over store['products'].
RECURSIVE seed_products(_, _, _)
seed_products(db, store_id, products) ==
    IF products = <<>> THEN db
    ELSE LET p == Head(products)
             found == {i \in DOMAIN db.products :
                          /\ db.products[i].category = p.category
                          /\ db.products[i].model = p.model}
             existing == IF found # {}
                         THEN CHOOSE i \in found : \A j \in found : i <= j
                         ELSE Len(db.products) + 1
             with_product ==
                 IF found = {}
                 THEN [db EXCEPT !.products =
                          Append(@, [category |-> p.category, model |-> p.model])]
                 ELSE db
             with_offer ==
                 [with_product EXCEPT !.offers =
                     Append(@, [store_id |-> store_id, product_id |-> existing,
                                price |-> p.price])]
         IN  seed_products(with_offer, store_id, Tail(products))

\* The record of a call of seed_from_json: the directory, the order it was
\* listed in, and whether the call raised.
SeedCall(n, seeds_dir, listing, raised) ==
    [n |-> n, seeds_dir |-> seeds_dir, listing |-> listing, raised |-> raised]

\* ProductDatabase.init_db on an empty database.
InitDb ==
    /\ product_db = EmptyDb
    /\ seed_call = SeedCall(0, {}, <<>>, FALSE)

\* seed_from_json, lines 17-56. The loop of lines 21-26 only loads the
\* files, each load replacing store; lines 29-56 run once after the loop, on
\* the store loaded last. With no seed file store is unbound at line 29 and
\* the call raises; the session is closed without a commit.
seed_from_json(seeds_dir, listing) ==
    /\ seed_call.n < MaxSeeds
    /\ LET loaded == SelectSeq(listing, endswith_json)
           raises == loaded = <<>>
       IN  /\ product_db' =
                 IF raises THEN product_db
                 ELSE LET store == loaded[Len(loaded)]
                          store_id == Len(product_db.stores) + 1
                          with_store == [product_db EXCEPT !.stores =
                                            Append(@, [name |-> store.store_name])]
                      IN  seed_products(with_store, store_id, store.products)
           /\ seed_call' = SeedCall(seed_call.n + 1, seeds_dir, listing, raises)
    /\ UNCHANGED <<orch_vars, index_vars>>

\* add_sample_data, lines 59-73: a directory with the one sample file.
add_sample_data ==
    \E listing \in listdir({sample}) : seed_from_json({sample}, listing)

----------------------------------------------------------------------------
(* State machine *)

Init ==
    /\ session_specs = [s \in Sessions |-> None]
    /\ rag_generator = FALSE
    /\ pc = [t \in Tasks |-> "idle"]
    /\ sid = [t \in Tasks |-> "s1"]
    /\ query = [t \in Tasks |-> <<>>]
    /\ query_type = [t \in Tasks |-> "none"]
    /\ existing_specs = [t \in Tasks |-> None]
    /\ llm_out = [t \in Tasks |-> None]
    /\ extracted_specs = [t \in Tasks |-> None]
    /\ clarify_call = [t \in Tasks |-> None]
    /\ catalog_call = [t \in Tasks |-> None]
    /\ response = [t \in Tasks |-> None]
    /\ failures = [t \in Tasks |-> {}]
    /\ turns = 0
    /\ llm_reply = [t \in Tasks |-> None]
    /\ catalog_result = [t \in Tasks |-> None]
    /\ InitIndex
    /\ InitDb

\* api_wrapper.initialize_rag (bot.py line 61).
initialize_rag ==
    /\ ~rag_generator
    /\ rag_generator' = TRUE
    /\ UNCHANGED <<session_specs, pc, sid, query, query_type, existing_specs, llm_out,
                   extracted_specs, clarify_call, catalog_call, response, failures,
                   turns,
                   llm_reply, catalog_result, index_vars, db_vars>>

\* A caller enters process(user_query) (orchestrator.py lines 73-74).
StartTurn(t, s, q) ==
    /\ pc[t] = "idle"
    /\ turns < MaxTurns
    /\ turns' = turns + 1
    /\ pc' = [pc EXCEPT ![t] = "classifying"]
    /\ sid' = [sid EXCEPT ![t] = s]
    /\ query' = [query EXCEPT ![t] = q]
    /\ UNCHANGED <<session_specs, rag_generator, query_type, existing_specs, llm_out,
                   extracted_specs, clarify_call, catalog_call, response, failures,
                   llm_reply, catalog_result, index_vars, db_vars>>

\* Line 77: classify returns a label.
Classify(t, reply) ==
    /\ pc[t] = "classifying"
    /\ query_type' = [query_type EXCEPT ![t] = classify(reply, query[t])]
    /\ pc' = [pc EXCEPT ![t] =
                IF classify(reply, query[t]) = "informational"
                THEN "retrieving" ELSE "reading"]
    /\ UNCHANGED <<session_specs, rag_generator, sid, query, existing_specs, llm_out,
                   extracted_specs, clarify_call, catalog_call, response, failures,
                   turns,
                   llm_reply, catalog_result, index_vars, db_vars>>

\* Line 77 with the completion call of classification.py line 55 raising:
\* nothing in classify or process catches it.
ClassifyRaise(t) ==
    /\ pc[t] = "classifying"
    /\ pc' = [pc EXCEPT ![t] = "raised"]
    /\ failures' = [failures EXCEPT ![t] = @ \cup {"classification"}]
    /\ UNCHANGED <<session_specs, rag_generator, sid, query, query_type, existing_specs,
                   llm_out, extracted_specs, clarify_call, catalog_call, response,
                   turns,
                   llm_reply, catalog_result, index_vars, db_vars>>

\* The informational branch creating the session's entry when it has none.
RetrieveCreating(t, generated) ==
    /\ pc[t] = "retrieving"
    /\ LET rag_response == query_rag(rag_generator, generated) IN
        /\ response' = [response EXCEPT ![t] =
                          IF rag_response # None
                          THEN Some(RagResponse(Val(rag_response)))
                          ELSE Some(RagErrorResponse)]
        /\ failures' = [failures EXCEPT ![t] =
                          IF rag_response = None THEN @ \cup {"retrieval"} ELSE @]
    /\ session_specs' = [session_specs EXCEPT ![sid[t]] =
                            IF @ = None THEN Some(EmptySpecs) ELSE @]
    /\ pc' = [pc EXCEPT ![t] = "responded"]
    /\ UNCHANGED <<rag_generator, sid, query, query_type, existing_specs,
                   llm_out, extracted_specs, clarify_call, catalog_call, turns,
                   llm_reply, catalog_result, index_vars, db_vars>>

\* Lines 80-96: the informational branch. generated is the outcome of
\* RAGGenerator.generate.
Retrieve(t, generated) ==
    /\ pc[t] = "retrieving"
    /\ LET rag_response == query_rag(rag_generator, generated) IN
        /\ response' = [response EXCEPT ![t] =
                          IF rag_response # None
                          THEN Some(RagResponse(Val(rag_response)))
                          ELSE Some(RagErrorResponse)]
        /\ failures' = [failures EXCEPT ![t] =
                          IF rag_response = None THEN @ \cup {"retrieval"} ELSE @]
    /\ pc' = [pc EXCEPT ![t] = "responded"]
    /\ UNCHANGED <<session_specs, rag_generator, sid, query, query_type, existing_specs,
                   llm_out, extracted_specs, clarify_call, catalog_call, turns,
                   llm_reply, catalog_result, index_vars, db_vars>>

\* Line 102: existing_specs = self._get_specs(session_id).
GetSpecs(t) ==
    /\ pc[t] = "reading"
    /\ existing_specs' = [existing_specs EXCEPT ![t] = session_specs[sid[t]]]
    /\ pc' = [pc EXCEPT ![t] = "extracting"]
    /\ UNCHANGED <<session_specs, rag_generator, sid, query, query_type, llm_out,
                   extracted_specs, clarify_call, catalog_call, response, failures,
                   turns,
                   llm_reply, catalog_result, index_vars, db_vars>>

\* Line 105: extracted_specs = self.extraction_chain.extract(query, existing_specs).
\* invoked is the outcome of the completion call and output parser.
Extract(t, invoked) ==
    /\ pc[t] = "extracting"
    /\ llm_out' = [llm_out EXCEPT ![t] = invoked]
    /\ extracted_specs' = [extracted_specs EXCEPT ![t] =
                              Some(extract(invoked, existing_specs[t]))]
    /\ failures' = [failures EXCEPT ![t] =
                      IF invoked = None THEN @ \cup {"extraction"} ELSE @]
    /\ pc' = [pc EXCEPT ![t] = "storing"]
    /\ UNCHANGED <<session_specs, rag_generator, sid, query, query_type, existing_specs,
                   clarify_call, catalog_call, response, turns,
                   llm_reply, catalog_result, index_vars, db_vars>>

\* The store of line 108 into one slot shared by all sessions.
StoreSpecsShared(t) ==
    /\ pc[t] = "storing"
    /\ session_specs' = [s \in Sessions |-> extracted_specs[t]]
    /\ pc' = [pc EXCEPT ![t] = NextStep(Val(extracted_specs[t]))]
    /\ UNCHANGED <<rag_generator, sid, query, query_type, existing_specs, llm_out,
                   extracted_specs, clarify_call, catalog_call, response, failures,
                   turns, llm_reply, catalog_result, index_vars, db_vars>>

\* Line 108: self._store_specs(session_id, extracted_specs); line 111 chooses
\* the branch.
StoreSpecs(t) ==
    /\ pc[t] = "storing"
    /\ session_specs' = [session_specs EXCEPT ![sid[t]] = extracted_specs[t]]
    /\ pc' = [pc EXCEPT ![t] = NextStep(Val(extracted_specs[t]))]
    /\ UNCHANGED <<rag_generator, sid, query, query_type, existing_specs, llm_out,
                   extracted_specs, clarify_call, catalog_call, response, failures,
                   turns,
                   llm_reply, catalog_result, index_vars, db_vars>>

\* Lines 113-123: the clarifying question is generated and returned.
Clarify(t) ==
    /\ pc[t] = "clarifying"
    /\ LET specs == Val(extracted_specs[t])
           missing_fields == get_missing_fields(specs)
       IN  /\ clarify_call' = [clarify_call EXCEPT ![t] =
                                 Some([specs |-> specs,
                                       missing_fields |-> missing_fields])]
           /\ response' = [response EXCEPT ![t] =
                             Some(ClarificationResponse(
                                    Message("question", missing_fields), specs))]
    /\ pc' = [pc EXCEPT ![t] = "responded"]
    /\ UNCHANGED <<session_specs, rag_generator, sid, query, query_type, existing_specs,
                   llm_out, extracted_specs, catalog_call, failures, turns,
                   llm_reply, catalog_result, index_vars, db_vars>>

\* Lines 113-116 with the completion call of clarification.py line 81
\* raising: nothing in generate_question or process catches it.
ClarifyRaise(t) ==
    /\ pc[t] = "clarifying"
    /\ LET specs == Val(extracted_specs[t]) IN
       clarify_call' = [clarify_call EXCEPT ![t] =
                          Some([specs |-> specs,
                                missing_fields |-> get_missing_fields(specs)])]
    /\ failures' = [failures EXCEPT ![t] = @ \cup {"clarification"}]
    /\ pc' = [pc EXCEPT ![t] = "raised"]
    /\ UNCHANGED <<session_specs, rag_generator, sid, query, query_type, existing_specs,
                   llm_out, extracted_specs, catalog_call, response, turns,
                   llm_reply, catalog_result, index_vars, db_vars>>

\* Lines 126-139 with the pop of line 132 in effect: the session's
\* specification is dropped after the listing.
FulfilClearing(t) ==
    /\ pc[t] = "fulfilling"
    /\ LET specs == Val(extracted_specs[t])
           products == get_products(specs)
       IN  /\ catalog_call' = [catalog_call EXCEPT ![t] = Some(specs)]
           /\ catalog_result' = [catalog_result EXCEPT ![t] = Some(products)]
           /\ response' = [response EXCEPT ![t] =
                             Some(ProductsResponse(
                                    format_products_response(products), specs))]
    /\ session_specs' = [session_specs EXCEPT ![sid[t]] = None]
    /\ pc' = [pc EXCEPT ![t] = "responded"]
    /\ UNCHANGED <<rag_generator, sid, query, query_type, existing_specs,
                   llm_out, extracted_specs, clarify_call, failures, turns,
                   llm_reply, index_vars, db_vars>>

\* Lines 126-139 with products what the call of get_products at line 127
\* returned: the listing is formatted and returned.
FulfilReturning(t, products) ==
    /\ pc[t] = "fulfilling"
    /\ LET specs == Val(extracted_specs[t])
       IN  /\ catalog_call' = [catalog_call EXCEPT ![t] = Some(specs)]
           /\ catalog_result' = [catalog_result EXCEPT ![t] = Some(products)]
           /\ response' = [response EXCEPT ![t] =
                             Some(ProductsResponse(
                                    format_products_response(products), specs))]
    /\ pc' = [pc EXCEPT ![t] = "responded"]
    /\ UNCHANGED <<session_specs, rag_generator, sid, query, query_type, existing_specs,
                   llm_out, extracted_specs, clarify_call, failures, turns,
                   llm_reply, index_vars, db_vars>>

\* Lines 126-139: the catalog of products_api.py is queried and the listing
\* returned.
Fulfil(t) ==
    /\ pc[t] = "fulfilling"
    /\ FulfilReturning(t, get_products(Val(extracted_specs[t])))

\* process() has returned or raised; the caller takes the outcome and the
\* frame of the call is gone.
Return(t) ==
    /\ pc[t] \in {"responded", "raised"}
    /\ pc' = [pc EXCEPT ![t] = "idle"]
    /\ sid' = [sid EXCEPT ![t] = "s1"]
    /\ query' = [query EXCEPT ![t] = <<>>]
    /\ query_type' = [query_type EXCEPT ![t] = "none"]
    /\ existing_specs' = [existing_specs EXCEPT ![t] = None]
    /\ llm_out' = [llm_out EXCEPT ![t] = None]
    /\ extracted_specs' = [extracted_specs EXCEPT ![t] = None]
    /\ clarify_call' = [clarify_call EXCEPT ![t] = None]
    /\ catalog_call' = [catalog_call EXCEPT ![t] = None]
    /\ catalog_result' = [catalog_result EXCEPT ![t] = None]
    /\ response' = [response EXCEPT ![t] = None]
    /\ failures' = [failures EXCEPT ![t] = {}]
    /\ UNCHANGED <<session_specs, rag_generator, turns,
                   llm_reply, index_vars, db_vars>>

\* The steps of a call in progress.
Step(t, outputs) ==
    \/ \E reply \in Replies : Classify(t, reply)
    \/ ClassifyRaise(t)
    \/ \E generated \in {None} \cup {Some(r) : r \in Retrievals} : Retrieve(t, generated)
    \/ GetSpecs(t)
    \/ \E invoked \in {None} \cup {Some(x) : x \in outputs} : Extract(t, invoked)
    \/ StoreSpecs(t)
    \/ Clarify(t)
    \/ ClarifyRaise(t)
    \/ Fulfil(t)
    \/ Return(t)

\* The callers of the repository (bot.py, test_bot_metrics.py) call process()
\* from one thread: a turn starts when the previous one has returned.
StartTurnSeq ==
    \E s \in Sessions, q \in Queries :
        /\ \A u \in Tasks : pc[u] = "idle"
        /\ StartTurn(MainTask, s, q)

Next ==
    \/ initialize_rag
    \/ StartTurnSeq
    \/ Step(MainTask, Extractions)

Spec == Init /\ [][Next]_vars

----------------------------------------------------------------------------
(* Concurrent callers: process() holds no lock, so calls made from several   *)
(* threads interleave at every step.                                         *)

StartTurnAny ==
    \E t \in Tasks, s \in Sessions, q \in Queries : StartTurn(t, s, q)

\* Structured outputs of the extraction completion call used in SpecConc.
ConcExtractions == {X_turn1, X_quantity}

StepAny ==
    \E t \in Tasks : Step(t, ConcExtractions)

NextConc ==
    \/ initialize_rag
    \/ StartTurnAny
    \/ StepAny

SpecConc == Init /\ [][NextConc]_vars

----------------------------------------------------------------------------
(* The catalog as a collaborator: products_api.py is a mock to be replaced   *)
(* by a real catalog (its lines 1-11), so get_products may return any        *)
(* sequence of products, the empty one included.                             *)

\* Results of a catalog lookup.
CatalogResults == {<<>>, SubSeq(mock_products, 1, 1), SubSeq(mock_products, 4, 5)}

\* The steps of a call in progress, with any catalog.
StepCatalog(t) ==
    \/ \E reply \in Replies : Classify(t, reply)
    \/ ClassifyRaise(t)
    \/ \E generated \in {None} \cup {Some(r) : r \in Retrievals} : Retrieve(t, generated)
    \/ GetSpecs(t)
    \/ \E invoked \in {None} \cup {Some(x) : x \in ConcExtractions} : Extract(t, invoked)
    \/ StoreSpecs(t)
    \/ Clarify(t)
    \/ ClarifyRaise(t)
    \/ \E products \in CatalogResults : FulfilReturning(t, products)
    \/ Return(t)

NextCatalog ==
    \/ initialize_rag
    \/ StartTurnSeq
    \/ StepCatalog(MainTask)

SpecCatalog == Init /\ [][NextCatalog]_vars

----------------------------------------------------------------------------
(* One order turn from the read of the stored specification on, for every    *)
(* stored specification and every extraction result of the domains.          *)

InitPure ==
    \E existing \in {None} \cup {Some(x) : x \in AllSpecs} :
        /\ session_specs = [s \in Sessions |-> IF s = "s1" THEN existing ELSE None]
        /\ rag_generator = TRUE
        /\ pc = [t \in Tasks |-> IF t = MainTask THEN "extracting" ELSE "idle"]
        /\ sid = [t \in Tasks |-> "s1"]
        /\ query = [t \in Tasks |-> <<>>]
        /\ query_type = [t \in Tasks |->
                            IF t = MainTask THEN "order_specification" ELSE "none"]
        /\ existing_specs = [t \in Tasks |-> IF t = MainTask THEN existing ELSE None]
        /\ llm_out = [t \in Tasks |-> None]
        /\ extracted_specs = [t \in Tasks |-> None]
        /\ clarify_call = [t \in Tasks |-> None]
        /\ catalog_call = [t \in Tasks |-> None]
        /\ response = [t \in Tasks |-> None]
        /\ failures = [t \in Tasks |-> {}]
        /\ turns = 1
        /\ llm_reply = [t \in Tasks |-> None]
        /\ catalog_result = [t \in Tasks |-> None]
        /\ InitIndex
        /\ InitDb

ExtractAny ==
    \E invoked \in {None} \cup {Some(x) : x \in AllSpecs} : Extract(MainTask, invoked)

NextPure ==
    \/ ExtractAny
    \/ StoreSpecs(MainTask)
    \/ Clarify(MainTask)
    \/ ClarifyRaise(MainTask)
    \/ Fulfil(MainTask)

SpecPure == InitPure /\ [][NextPure]_vars

----------------------------------------------------------------------------
(* get_products() on its own: the call at line 127, for every complete       *)
(* specification of the set below.                                           *)

\* Complete specifications: product types of the catalog in two spellings
\* and one it does not hold, marks it holds and one it does not, fractions.
LookupSpecs ==
    {OrderSpecs(Some(p), Some("5 kubov"),
                Some(ProductCharacteristics(Some(m), f, None)), d) :
        p \in {"beton", "Beton", "pesok", "kirpich"},
        m \in {"M300", "M400", "M500"},
        f \in OptStr({"20-40", "0-5"}),
        d \in {None, Some(DeliveryInfo(Some("Moskva"), None))}}

InitLookup ==
    \E specs \in LookupSpecs :
        /\ session_specs = [s \in Sessions |-> IF s = "s1" THEN Some(specs) ELSE None]
        /\ rag_generator = TRUE
        /\ pc = [t \in Tasks |-> IF t = MainTask THEN "fulfilling" ELSE "idle"]
        /\ sid = [t \in Tasks |-> "s1"]
        /\ query = [t \in Tasks |-> <<>>]
        /\ query_type = [t \in Tasks |->
                            IF t = MainTask THEN "order_specification" ELSE "none"]
        /\ existing_specs = [t \in Tasks |-> None]
        /\ llm_out = [t \in Tasks |-> None]
        /\ extracted_specs = [t \in Tasks |-> IF t = MainTask THEN Some(specs) ELSE None]
        /\ clarify_call = [t \in Tasks |-> None]
        /\ catalog_call = [t \in Tasks |-> None]
        /\ response = [t \in Tasks |-> None]
        /\ failures = [t \in Tasks |-> {}]
        /\ turns = 1
        /\ llm_reply = [t \in Tasks |-> None]
        /\ catalog_result = [t \in Tasks |-> None]
        /\ InitIndex
        /\ InitDb

NextLookup == Fulfil(MainTask)

SpecLookup == InitLookup /\ [][NextLookup]_vars

----------------------------------------------------------------------------
(* classify() on its own: one call at line 77, for every user message and    *)
(* every reply of the completion call of the sets below.                     *)

\* User messages: with an ordering keyword in several forms, and without.
ClassifyQueries ==
    Queries \cup
    { <<"nuzhen", "pesok">>, <<"mne", "nuzhno", "5", "kubov">>, <<"kupit", "sheben">>,
      <<"trebuetsya", "beton">>, <<"Hochu">>, <<"zakaz", "betona">>,
      <<"nuzhna", "shebenka">>, <<"skolko", "stoit", "beton">>, <<>> }

\* Replies of the completion call: the labels in several spellings, both
\* labels at once, and texts with no label.
ClassifyReplies ==
    Replies \cup
    { <<"informational">>, <<"Order_specification">>, <<"informatsionnyy">>,
      <<"spetsifikatsiya">>, <<"eto", "zakaz">>, <<"zakazat">>,
      <<"informational", "order_specification">>,
      <<"order_specification", "informational">>, <<"beton">>, <<>> }

InitClassify ==
    \E q \in ClassifyQueries, reply \in ClassifyReplies :
        /\ session_specs = [s \in Sessions |-> None]
        /\ rag_generator = TRUE
        /\ pc = [t \in Tasks |-> IF t = MainTask THEN "classifying" ELSE "idle"]
        /\ sid = [t \in Tasks |-> "s1"]
        /\ query = [t \in Tasks |-> IF t = MainTask THEN q ELSE <<>>]
        /\ query_type = [t \in Tasks |-> "none"]
        /\ existing_specs = [t \in Tasks |-> None]
        /\ llm_out = [t \in Tasks |-> None]
        /\ extracted_specs = [t \in Tasks |-> None]
        /\ clarify_call = [t \in Tasks |-> None]
        /\ catalog_call = [t \in Tasks |-> None]
        /\ response = [t \in Tasks |-> None]
        /\ failures = [t \in Tasks |-> {}]
        /\ turns = 1
        /\ llm_reply = [t \in Tasks |-> IF t = MainTask THEN Some(reply) ELSE None]
        /\ catalog_result = [t \in Tasks |-> None]
        /\ InitIndex
        /\ InitDb

\* Line 77 with the reply the completion call was given to return.
ClassifyDrawn == Classify(MainTask, Val(llm_reply[MainTask]))

NextClassify == ClassifyDrawn

SpecClassify == InitClassify /\ [][NextClassify]_vars

----------------------------------------------------------------------------
(* The vector index on its own: stores are constructed, inputs ingested,     *)
(* collections deleted and queries retrieved, in any order.                  *)

NextIndex ==
    \/ \E collection_name \in CollectionNames, model_name \in ModelNames :
          NewVectorStore(collection_name, model_name)
    \/ \E jsonl \in JsonlInputs : AddDocuments(jsonl)
    \/ DeleteCollection
    \/ \E q \in RetrieverQueries, top_k \in TopKs : RetrieverRetrieve(q, top_k)

SpecIndex == Init /\ [][NextIndex]_vars

----------------------------------------------------------------------------
(* setup_rag_system on its own: any sequence of calls within one process,    *)
(* in both modes, at two storage paths, on several data files and with both  *)
(* embedding models.                                                         *)

NextSetup ==
    \E use_in_memory \in BOOLEAN, data_path \in JsonlInputs,
       qdrant_storage_path \in StoragePaths, embedding_model \in ModelNames :
        SetupRagSystem(use_in_memory, data_path, qdrant_storage_path, embedding_model)

SpecSetup == Init /\ [][NextSetup]_vars

----------------------------------------------------------------------------
(* The product database on its own: any sequence of seedings.                *)

NextSeed ==
    \/ \E seeds_dir \in SeedDirs : \E listing \in listdir(seeds_dir) :
          seed_from_json(seeds_dir, listing)
    \/ add_sample_data

SpecSeed == Init /\ [][NextSeed]_vars

----------------------------------------------------------------------------
(* The bot: ConstructionMaterialsBot sets the RAG system up and answers      *)
(* turns; the informational branch retrieves from the index set up.          *)

\* SentenceTransformer.encode with the model of two dimensions, on the user
\* messages.
EmbeddingMessage2(q) ==
    CASE q = <<"Hochu", "zakazat", "beton", "M300">> -> <<4, 3>>
      [] q = <<"chto", "takoe", "graviy">> -> <<0, 5>>

\* Retriever.embed_query (retriver.py lines 74-75) on a user message.
embed_query(model_name, q) ==
    IF embedding_dimension(model_name) = 2
    THEN EmbeddingMessage2(q)
    ELSE EmbeddingMessage2(q) \o <<0>>

\* query_rag's default top_k (api_wrapper.py line 33).
DefaultTopK == 5

\* RAGGenerator.generate (generator.py lines 34-55) on the retriever of the
\* store set up last: the possible outcomes, None when retrieve raises and
\* else the texts of the retrieved documents, which is what query_rag reads
\* of them (api_wrapper.py lines 63-64).
generate(q) ==
    LET self == Val(vector_store)
        name == self.collection_name
        query_vector == embed_query(self.model_name, q)
    IN  IF \/ collections[name] = None
           \/ ~SizeMatches(Val(collections[name]), query_vector)
        THEN {None}
        ELSE { Some([i \in DOMAIN search_results |->
                        format_results(search_results)[i].text]) :
                 search_results \in
                     search(Val(collections[name]), query_vector, DefaultTopK) }

\* Data files given to the bot: a crawl, and one with no usable record.
BotInputs == {raw_v1, raw_none}

\* ConstructionMaterialsBot.__init__, bot.py lines 56-73: the RAG system is
\* set up with the defaults of setup_rag_system, the retriever is handed to
\* initialize_rag and a new orchestrator, with no session, is constructed.
\* When setup_rag_system raises, so does the constructor.
NewBot(use_in_memory, data_path) ==
    /\ \A u \in Tasks : pc[u] = "idle"
    /\ setup_rag_system(use_in_memory, data_path,
                        DEFAULT_QDRANT_STORAGE_PATH, EMBEDDING_MODEL)
    /\ rag_generator' = IF setup_call'.raised THEN rag_generator ELSE TRUE
    /\ session_specs' = IF setup_call'.raised THEN session_specs
                        ELSE [s \in Sessions |-> None]
    /\ UNCHANGED <<pc, sid, query, query_type, existing_specs, llm_out,
                   extracted_specs, clarify_call, catalog_call, response, failures,
                   turns, llm_reply, catalog_result, db_vars>>

\* bot.process_query (bot.py lines 88-89) on the bot constructed last.
StartTurnBot ==
    /\ rag_generator
    /\ StartTurnSeq

\* Lines 80-96 with query_rag reading the index set up.
RetrieveIndexed(t) ==
    /\ pc[t] = "retrieving"
    /\ vector_store # None
    /\ \E generated \in generate(query[t]) : Retrieve(t, generated)

\* The steps of a call in progress on the bot.
StepBot(t) ==
    \/ \E reply \in Replies : Classify(t, reply)
    \/ ClassifyRaise(t)
    \/ RetrieveIndexed(t)
    \/ GetSpecs(t)
    \/ \E invoked \in {None} \cup {Some(x) : x \in ConcExtractions} : Extract(t, invoked)
    \/ StoreSpecs(t)
    \/ Clarify(t)
    \/ ClarifyRaise(t)
    \/ Fulfil(t)
    \/ Return(t)

NextBot ==
    \/ \E use_in_memory \in BOOLEAN, data_path \in BotInputs :
          NewBot(use_in_memory, data_path)
    \/ StartTurnBot
    \/ StepBot(MainTask)

SpecBot == Init /\ [][NextBot]_vars

----------------------------------------------------------------------------
(* Vocabulary of the properties *)

LeafFields == {"product_type", "quantity", "mark", "fraction", "address", "date"}

\* The value of one leaf field of an OrderSpecs; a field of an absent nested
\* record is None.
Leaf(specs, f) ==
    CASE f = "product_type" -> specs.product_type
      [] f = "quantity" -> specs.quantity
      [] f = "mark" -> IF specs.characteristics = None THEN None
                       ELSE Val(specs.characteristics).mark
      [] f = "fraction" -> IF specs.characteristics = None THEN None
                           ELSE Val(specs.characteristics).fraction
      [] f = "address" -> IF specs.delivery = None THEN None
                          ELSE Val(specs.delivery).address
      [] f = "date" -> IF specs.delivery = None THEN None
                       ELSE Val(specs.delivery).date

\* The leaf of an Optional[OrderSpecs]: an absent specification has no field.
LeafOpt(o, f) == IF o = None THEN None ELSE Leaf(Val(o), f)

\* The three required fields are set (not None).
RequiredSet(specs) ==
    /\ Leaf(specs, "product_type") # None
    /\ Leaf(specs, "quantity") # None
    /\ Leaf(specs, "mark") # None

\* Exactly the leaf fields in S hold a non-empty value, every other is None.
OnlySet(specs, S) ==
    \A f \in LeafFields :
        IF f \in S THEN Truthy(Leaf(specs, f)) ELSE Leaf(specs, f) = None

\* A call is past the store of line 108.
Stored(t) == pc[t] \in {"clarifying", "fulfilling", "responded", "raised"}
               /\ extracted_specs[t] # None

----------------------------------------------------------------------------
(* C1 *)

\* C1: whenever extract() has merged an extraction result X with the existing
\* specification E, every leaf field of the returned specification is X's
\* value if that is not None and E's value otherwise (None when there is no
\* E); so an X that sets only characteristics.fraction leaves E's mark.
C1_MergeFieldwise ==
    \A t \in Tasks :
        (extracted_specs[t] # None /\ llm_out[t] # None) =>
            \A f \in LeafFields :
                LeafOpt(extracted_specs[t], f) =
                    IF Leaf(Val(llm_out[t]), f) # None
                    THEN Leaf(Val(llm_out[t]), f)
                    ELSE LeafOpt(existing_specs[t], f)

\* An extraction that sets only the fraction met an existing mark and
\* delivery address, and both are in the merged specification.
C1_Witness ==
    \E t \in Tasks :
        /\ extracted_specs[t] # None /\ llm_out[t] # None /\ existing_specs[t] # None
        /\ OnlySet(Val(llm_out[t]), {"fraction"})
        /\ LeafOpt(existing_specs[t], "mark") = Some("M300")
        /\ LeafOpt(existing_specs[t], "fraction") = None
        /\ LeafOpt(existing_specs[t], "address") = Some("Moskva")
        /\ LeafOpt(extracted_specs[t], "mark") = Some("M300")
        /\ LeafOpt(extracted_specs[t], "fraction") = Some("20-40")
        /\ LeafOpt(extracted_specs[t], "address") = Some("Moskva")

----------------------------------------------------------------------------
(* C3 *)

\* The specification with the required fields of specs and the given
\* fraction and delivery.
WithOptional(specs, fraction, delivery) ==
    OrderSpecs(specs.product_type, specs.quantity,
               IF specs.characteristics = None /\ fraction = None
               THEN None
               ELSE Some(ProductCharacteristics(Leaf(specs, "mark"), fraction, None)),
               delivery)

\* C3: for every specification a turn works on, is_complete() is true exactly
\* when product_type, quantity and characteristics.mark are all not None, and
\* the result is the same for every fraction and delivery put in their place.
C3_CompleteIffRequired ==
    \A t \in Tasks :
        extracted_specs[t] # None =>
            LET specs == Val(extracted_specs[t]) IN
            /\ is_complete(specs) <=> RequiredSet(specs)
            /\ \A fr \in OptStr(Fractions),
                  d \in {None} \cup {Some(x) : x \in AllDelivery} :
                    is_complete(WithOptional(specs, fr, d)) = is_complete(specs)

\* A specification with the three required fields and nothing else is
\* complete and its turn goes on to the catalog.
C3_Witness ==
    \E t \in Tasks :
        /\ extracted_specs[t] # None
        /\ OnlySet(Val(extracted_specs[t]), {"product_type", "quantity", "mark"})
        /\ is_complete(Val(extracted_specs[t]))
        /\ pc[t] = "fulfilling"

----------------------------------------------------------------------------
(* C4 *)

\* A required field counts as unset when it is None or the empty string:
\* the test "not field" of get_missing_fields.
Unset(specs, f) == ~Truthy(Leaf(specs, f))

\* The unset fields among the three required ones, in the fixed order.
UnsetRequired(specs) ==
    (IF Unset(specs, "product_type") THEN <<"product_type">> ELSE <<>>)
    \o (IF Unset(specs, "quantity") THEN <<"quantity">> ELSE <<>>)
    \o (IF Unset(specs, "mark") THEN <<"characteristics.mark">> ELSE <<>>)

RequiredNames == <<"product_type", "quantity", "characteristics.mark">>

\* The position of a required field name in the fixed order.
RequiredIndex(name) == CHOOSE i \in 1..3 : RequiredNames[i] = name

----------------------------------------------------------------------------
(* C2 *)

\* C2: in every step of a run of turns, each leaf field of each session's
\* stored specification that is not None stays not None, and a stored leaf
\* changes only in the store of a turn of that session whose extraction
\* returned a value other than None for that field, to that value.
C2_FieldsAccumulate ==
    [][\A s \in Sessions, f \in LeafFields :
         /\ LeafOpt(session_specs[s], f) # None => LeafOpt(session_specs'[s], f) # None
         /\ LeafOpt(session_specs'[s], f) # LeafOpt(session_specs[s], f) =>
                \E t \in Tasks :
                    /\ pc[t] = "storing" /\ sid[t] = s
                    /\ llm_out[t] # None
                    /\ Leaf(Val(llm_out[t]), f) # None
                    /\ LeafOpt(session_specs'[s], f) = Leaf(Val(llm_out[t]), f)]_vars

\* The third order turn of a session failed to extract; the product type of
\* the first turn and the mark that replaced the first one are still stored.
C2_Witness ==
    \E t \in Tasks :
        /\ Stored(t) /\ "extraction" \in failures[t]
        /\ LeafOpt(session_specs[sid[t]], "product_type") = Some("beton")
        /\ LeafOpt(session_specs[sid[t]], "mark") = Some("M400")

----------------------------------------------------------------------------
(* C5 *)

\* C5: on an order turn the merged specification chooses the branch. While
\* it is incomplete the catalog is never queried, the turn goes to the
\* clarification call, made with the merged specification, and the response
\* is a question with needs_clarification = TRUE; while it is complete no
\* clarification call is made, the catalog is queried with the merged
\* specification and the response has needs_clarification = FALSE.
C5_OneBranch ==
    \A t \in Tasks :
        Stored(t) =>
            LET specs == Val(extracted_specs[t]) IN
            IF ~RequiredSet(specs)
            THEN /\ catalog_call[t] = None
                 /\ pc[t] # "fulfilling"
                 /\ pc[t] # "clarifying" =>
                        /\ clarify_call[t] # None
                        /\ Val(clarify_call[t]).specs = specs
                 /\ pc[t] = "responded" =>
                        /\ response[t] # None
                        /\ Val(response[t]).needs_clarification = TRUE
                        /\ Val(response[t]).message.kind = "question"
                        /\ Val(response[t]).extracted_specs = Some(specs)
            ELSE /\ clarify_call[t] = None
                 /\ pc[t] \in {"fulfilling", "responded"}
                 /\ pc[t] = "responded" =>
                        /\ catalog_call[t] = Some(specs)
                        /\ response[t] # None
                        /\ Val(response[t]).needs_clarification = FALSE
                        /\ Val(response[t]).message.kind \in {"products", "no_products"}
                        /\ Val(response[t]).extracted_specs = Some(specs)

\* A turn with a complete merged specification has answered with the
\* product listing.
C5_Witness ==
    \E t \in Tasks :
        /\ pc[t] = "responded" /\ extracted_specs[t] # None
        /\ RequiredSet(Val(extracted_specs[t]))
        /\ catalog_call[t] = extracted_specs[t]
        /\ clarify_call[t] = None
        /\ Val(response[t]).needs_clarification = FALSE

----------------------------------------------------------------------------
(* C6 *)

\* C6: the first order turn of a session (nothing stored yet) that extracts
\* only a product type and a mark goes to the clarification call with the
\* missing-field list [quantity] and answers with that question; the next
\* order turn of the session (it reads what the first one stored), when it
\* extracts only a quantity, has a complete merged specification and queries
\* the catalog with the product type and mark of the first turn and its own
\* quantity.
C6_TwoTurnOrder ==
    \A t \in Tasks :
        (Stored(t) /\ llm_out[t] # None) =>
            LET X == Val(llm_out[t])
                merged == Val(extracted_specs[t])
            IN
            /\ (existing_specs[t] = None /\ OnlySet(X, {"product_type", "mark"})) =>
                    /\ pc[t] # "fulfilling" /\ catalog_call[t] = None
                    /\ pc[t] # "clarifying" =>
                            /\ clarify_call[t] # None
                            /\ Val(clarify_call[t]).missing_fields = <<"quantity">>
                    /\ pc[t] = "responded" =>
                            /\ Val(response[t]).needs_clarification = TRUE
                            /\ Val(response[t]).message = Message("question", <<"quantity">>)
            /\ (/\ existing_specs[t] # None
                /\ OnlySet(Val(existing_specs[t]), {"product_type", "mark"})
                /\ OnlySet(X, {"quantity"})) =>
                    /\ RequiredSet(merged)
                    /\ pc[t] \in {"fulfilling", "responded"}
                    /\ clarify_call[t] = None
                    /\ pc[t] = "responded" =>
                            /\ catalog_call[t] # None
                            /\ Leaf(Val(catalog_call[t]), "product_type")
                                  = LeafOpt(existing_specs[t], "product_type")
                            /\ Leaf(Val(catalog_call[t]), "mark")
                                  = LeafOpt(existing_specs[t], "mark")
                            /\ Leaf(Val(catalog_call[t]), "quantity") = Leaf(X, "quantity")
                            /\ Val(response[t]).needs_clarification = FALSE

\* The second order turn of the session has queried the catalog with beton,
\* M300 of the first turn and its own 5 kubov.
C6_Witness ==
    \E t \in Tasks :
        /\ pc[t] = "responded"
        /\ existing_specs[t] = Some(X_turn1)
        /\ llm_out[t] = Some(X_quantity)
        /\ catalog_call[t] # None
        /\ OnlySet(Val(catalog_call[t]), {"product_type", "quantity", "mark"})
        /\ Leaf(Val(catalog_call[t]), "product_type") = Some("beton")
        /\ Leaf(Val(catalog_call[t]), "quantity") = Some("5 kubov")
        /\ Leaf(Val(catalog_call[t]), "mark") = Some("M300")

----------------------------------------------------------------------------
(* C7 *)

\* C7: when the extraction call of an order turn has failed, extract() has
\* returned a specification (the turn goes on to the store; if the turn ends
\* raising, another collaborator's call raised), that specification is the
\* existing one, or the all-None one when the session had none, which is
\* what merging an all-None extraction gives, and it is what the session
\* stores after the turn.
C7_FailedExtraction ==
    \A t \in Tasks :
        "extraction" \in failures[t] =>
            /\ pc[t] \in {"storing", "clarifying", "fulfilling", "responded", "raised"}
            /\ pc[t] = "raised" => "clarification" \in failures[t]
            /\ extracted_specs[t] =
                    IF existing_specs[t] = None THEN Some(EmptySpecs) ELSE existing_specs[t]
            /\ extracted_specs[t] = Some(extract(Some(EmptySpecs), existing_specs[t]))
            /\ Stored(t) =>
                    session_specs[sid[t]] =
                        IF existing_specs[t] = None THEN Some(EmptySpecs)
                        ELSE existing_specs[t]

\* A turn whose extraction failed has answered, and the session still stores
\* the product type and mark it had.
C7_Witness ==
    \E t \in Tasks :
        /\ "extraction" \in failures[t] /\ pc[t] = "responded"
        /\ existing_specs[t] = Some(X_turn1)
        /\ session_specs[sid[t]] = Some(X_turn1)

\* The same for a session that had nothing stored: it now stores the
\* all-None specification.
C7_WitnessFresh ==
    \E t \in Tasks :
        /\ "extraction" \in failures[t] /\ pc[t] = "responded"
        /\ existing_specs[t] = None
        /\ session_specs[sid[t]] = Some(EmptySpecs)

----------------------------------------------------------------------------
(* C8 *)

\* C8: when retrieval has failed on an informational turn (generate raised,
\* or the RAG generator was never initialized), process() has returned a
\* response with the apology message, query_type = informational,
\* needs_clarification = FALSE and no extracted specification.
C8_RetrievalFailure ==
    \A t \in Tasks :
        "retrieval" \in failures[t] =>
            /\ pc[t] = "responded"
            /\ response[t] # None
            /\ Val(response[t]).message.kind = "apology"
            /\ Val(response[t]).query_type = "informational"
            /\ Val(response[t]).needs_clarification = FALSE
            /\ Val(response[t]).extracted_specs = None

\* An informational turn has answered with the apology while the RAG
\* generator was not initialized.
C8_Witness ==
    \E t \in Tasks :
        /\ "retrieval" \in failures[t] /\ ~rag_generator
        /\ pc[t] = "responded" /\ query_type[t] = "informational"

----------------------------------------------------------------------------
(* C9 *)

\* C9: process() never ends by raising, whichever collaborator call fails.
C9_NeverRaises ==
    \A t \in Tasks : pc[t] # "raised"

----------------------------------------------------------------------------
(* C10 *)

\* C10: when two order turns of one session have both stored, the stored
\* specification holds every field either of them extracted (no lost update).
C10_NoLostUpdate ==
    \A t, u \in Tasks :
        (t # u /\ sid[t] = sid[u] /\ Stored(t) /\ Stored(u)) =>
            \A f \in LeafFields :
                (LeafOpt(llm_out[t], f) # None \/ LeafOpt(llm_out[u], f) # None)
                    => LeafOpt(session_specs[sid[t]], f) # None

----------------------------------------------------------------------------
(* C11 *)

\* The response an order turn gives on the specification it stored.
OrderResponses(specs) ==
    { Some(ClarificationResponse(Message("question", get_missing_fields(specs)),
                                 specs)),
      Some(ProductsResponse(format_products_response(get_products(specs)), specs)) }

\* C11: under every interleaving of turns, a step changes the stored
\* specification of a session only as the store of a turn of that session,
\* a turn reads only the stored specification of its own session, and the
\* response of an order turn is the one determined by that read and the
\* turn's own extraction result.
C11_SessionsIndependent ==
    [][ /\ \A s \in Sessions :
              session_specs'[s] # session_specs[s] =>
                  \E t \in Tasks :
                      /\ sid[t] = s
                      /\ pc[t] = "storing" /\ pc'[t] # "storing"
                      /\ session_specs'[s] = extracted_specs[t]
        /\ \A t \in Tasks :
              (pc[t] = "reading" /\ pc'[t] = "extracting") =>
                  existing_specs'[t] = session_specs[sid[t]]
        /\ \A t \in Tasks :
              (pc[t] \in {"clarifying", "fulfilling"} /\ pc'[t] = "responded") =>
                  response'[t] \in OrderResponses(extract(llm_out[t], existing_specs[t]))
      ]_vars

\* Two turns of different sessions are both past their store, each session
\* holds what its own turn stored, the two differ, and one has responded.
C11_Witness ==
    \E t, u \in Tasks :
        /\ sid[t] # sid[u]
        /\ Stored(t) /\ Stored(u)
        /\ session_specs[sid[t]] = extracted_specs[t]
        /\ session_specs[sid[u]] = extracted_specs[u]
        /\ session_specs[sid[t]] # session_specs[sid[u]]
        /\ pc[t] = "responded" /\ response[t] # None

----------------------------------------------------------------------------
(* C12 *)

\* C12: the step that fulfils a turn and the return that follows leave the
\* session's completed specification stored; an order turn that finds a
\* complete stored specification E goes to the catalog again, with E itself
\* when its extraction gives no value (or fails) and otherwise with E in
\* which exactly the leaves the extraction gave a non-None value for are
\* replaced by those values.
C12_FulfilmentKeepsSpecs ==
    [][ \A t \in Tasks :
          /\ (pc[t] = "fulfilling" /\ pc'[t] = "responded") =>
                /\ session_specs' = session_specs
                /\ session_specs'[sid[t]] = extracted_specs[t]
                /\ is_complete(Val(session_specs'[sid[t]]))
                /\ catalog_call'[t] = extracted_specs[t]
                /\ response'[t] =
                      Some(ProductsResponse(
                             format_products_response(
                               get_products(Val(extracted_specs[t]))),
                             Val(extracted_specs[t])))
          /\ (pc[t] = "responded" /\ pc'[t] = "idle") =>
                session_specs' = session_specs
          /\ ( /\ pc[t] = "storing" /\ pc'[t] # "storing"
               /\ existing_specs[t] # None
               /\ is_complete(Val(existing_specs[t])) ) =>
                /\ pc'[t] = "fulfilling"
                /\ \A f \in LeafFields :
                      LeafOpt(extracted_specs[t], f) =
                          IF LeafOpt(llm_out[t], f) # None
                          THEN LeafOpt(llm_out[t], f)
                          ELSE LeafOpt(existing_specs[t], f)
                /\ (\A f \in LeafFields : LeafOpt(llm_out[t], f) = None) =>
                      extracted_specs[t] = existing_specs[t]
      ]_vars

\* A turn found the complete specification (beton, 5 kubov, M300) stored,
\* extracted only the mark M400, and was answered with the listing for
\* (beton, 5 kubov, M400), which is what the session now holds.
C12_Witness ==
    \E t \in Tasks :
        /\ pc[t] = "responded"
        /\ existing_specs[t] # None /\ is_complete(Val(existing_specs[t]))
        /\ OnlySet(Val(existing_specs[t]), {"product_type", "quantity", "mark"})
        /\ LeafOpt(existing_specs[t], "mark") = Some("M300")
        /\ llm_out[t] = Some(X_mark)
        /\ catalog_call[t] # None
        /\ LeafOpt(catalog_call[t], "mark") = Some("M400")
        /\ LeafOpt(catalog_call[t], "product_type") = LeafOpt(existing_specs[t], "product_type")
        /\ LeafOpt(catalog_call[t], "quantity") = LeafOpt(existing_specs[t], "quantity")
        /\ session_specs[sid[t]] = catalog_call[t]
        /\ response[t] # None /\ ~Val(response[t]).needs_clarification

----------------------------------------------------------------------------
(* C13 *)

\* C13: no session has a stored specification at the start, a stored
\* specification changes only in the store of an order_specification turn
\* of that session, and a turn classified informational never holds a read
\* or an extracted specification and never leaves the informational branch.
C13_LazySessionSpecs ==
    /\ \A s \in Sessions : session_specs[s] = None
    /\ [][ /\ \A s \in Sessions :
                 session_specs'[s] # session_specs[s] =>
                     \E t \in Tasks :
                         /\ sid[t] = s
                         /\ query_type[t] = "order_specification"
                         /\ pc[t] = "storing"
           /\ \A t \in Tasks :
                 query_type'[t] = "informational" =>
                     /\ pc'[t] \in {"retrieving", "responded"}
                     /\ existing_specs'[t] = None
                     /\ extracted_specs'[t] = None
                     /\ session_specs' = session_specs
         ]_vars

\* An informational turn whose retrieval failed has responded in a session
\* that still has no stored specification, while the other session has one.
C13_Witness ==
    \E t \in Tasks :
        /\ pc[t] = "responded" /\ query_type[t] = "informational"
        /\ "retrieval" \in failures[t]
        /\ session_specs[sid[t]] = None
        /\ \E s \in Sessions : session_specs[s] # None

----------------------------------------------------------------------------
(* C14 *)

\* The steps of a turn: Start is a call at its classification, Classified the
\* label's branch entered (retrieving, or reading the session for the
\* extraction), Extracting runs from the read to the store.
TurnEdges ==
    { <<"idle", "classifying">>,
      <<"classifying", "retrieving">>, <<"classifying", "reading">>,
      <<"retrieving", "responded">>,
      <<"reading", "extracting">>, <<"extracting", "storing">>,
      <<"storing", "clarifying">>, <<"storing", "fulfilling">>,
      <<"clarifying", "responded">>, <<"fulfilling", "responded">>,
      <<"responded", "idle">> }

\* C14: every step of a turn is one of Start -> Classified -> (Retrieving |
\* Extracting) -> (Clarifying | Fulfilling) -> Responded; the classification
\* comes first and gives one of the two labels, which chooses retrieval
\* (informational) or extraction (order_specification) and is not taken
\* again; a turn ends only responded, with one response whose query_type is
\* the label.
C14_TurnPath ==
    [][ \A t \in Tasks :
          /\ pc'[t] # pc[t] => <<pc[t], pc'[t]>> \in TurnEdges
          /\ (pc[t] = "classifying" /\ pc'[t] # "classifying") =>
                /\ query_type'[t] \in {"informational", "order_specification"}
                /\ pc'[t] = "retrieving" <=> query_type'[t] = "informational"
                /\ pc'[t] = "reading" <=> query_type'[t] = "order_specification"
          /\ (pc[t] \notin {"idle", "classifying"} /\ pc'[t] # "idle") =>
                query_type'[t] = query_type[t]
          /\ pc'[t] = "retrieving" => query_type'[t] = "informational"
          /\ pc'[t] \in {"reading", "extracting", "storing"} =>
                query_type'[t] = "order_specification"
          /\ extracted_specs'[t] # None => query_type'[t] = "order_specification"
          /\ response'[t] # None <=> pc'[t] = "responded"
          /\ (pc[t] # "responded" /\ pc'[t] = "responded") =>
                Val(response'[t]).query_type = query_type[t]
          /\ (pc[t] # "idle" /\ pc'[t] = "idle") =>
                /\ pc[t] = "responded"
                /\ response[t] # None
                /\ Val(response[t]).query_type = query_type[t]
      ]_vars

----------------------------------------------------------------------------
(* C15 *)

\* The reply, stripped and lower-cased, holds one of the spellings of a
\* label that classify looks for.
RecognizedLabel(result) ==
    \E label \in {"informational", "informatsionnyy",
                  "order_specification", "spetsifikatsiya", "zakaz"} :
        Contains(result, label)

\* The keyword fallback on the user message.
KeywordFallback(q) ==
    IF \E keyword \in ordering_keywords : Contains(Lower(q), keyword)
    THEN "order_specification"
    ELSE "informational"

\* C15: for every reply of the completion call, the classification made is
\* informational or order_specification, and when the reply holds no
\* spelling of a label it is order_specification if the user message
\* contains an ordering keyword and informational otherwise.
C15_ClassifyTotal ==
    \A t \in Tasks :
        (llm_reply[t] # None /\ pc[t] # "classifying") =>
            /\ query_type[t] \in {"informational", "order_specification"}
            /\ ~RecognizedLabel(Lower(Val(llm_reply[t]))) =>
                  query_type[t] = KeywordFallback(query[t])

\* The reply "ne znayu" holds no label and the message has no ordering
\* keyword although it names an order: the turn is informational.
C15_Witness ==
    \E t \in Tasks :
        /\ llm_reply[t] = Some(<<"ne", "znayu">>)
        /\ query[t] = <<"zakaz", "betona">>
        /\ query_type[t] = "informational"
        /\ pc[t] = "retrieving"

----------------------------------------------------------------------------
(* Vocabulary of the properties of the vector index *)

\* The collection the store constructed last works on.
StoreCollection == Val(vector_store).collection_name

\* The id and text of every entry of an Optional[collection].
Texts(o) == IF o = None THEN {} ELSE {<<p.id, p.payload.text>> : p \in Val(o).points}

\* count() of an Optional[collection]; a collection that does not exist has
\* no entry.
Count(o) == IF o = None THEN 0 ELSE count(Val(o))

\* The step is a call of the given operation.
Calls(op) == index_call'.n # index_call.n /\ index_call'.op = op

\* The input was given to add_documents before, since the collection exists.
InHistory(jsonl, history) == \E i \in DOMAIN history : history[i] = jsonl

\* Two points are chunks of the same position of the same document.
SamePosition(p, r) ==
    /\ p.payload.url = r.payload.url
    /\ p.payload.doc_index = r.payload.doc_index
    /\ p.payload.chunk_index = r.payload.chunk_index

----------------------------------------------------------------------------
(* C16 *)

\* C16: a run of add_documents on an input it has already run on, in the
\* same collection, leaves count() and the id and text of every stored
\* entry as they were.
C16_IngestionIdempotent ==
    [][ ( /\ Calls("add_documents")
          /\ InHistory(index_call'.input, ingested[StoreCollection]) ) =>
            /\ Count(collections'[StoreCollection]) = Count(collections[StoreCollection])
            /\ Texts(collections'[StoreCollection]) = Texts(collections[StoreCollection])
      ]_vars

\* add_documents has run twice on the crawl of three chunks, and the
\* collection holds three entries.
C16_Witness ==
    /\ vector_store # None
    /\ index_call.op = "add_documents" /\ ~index_call.raised
    /\ ingested[StoreCollection] = <<raw_v1, raw_v1>>
    /\ Count(collections[StoreCollection]) = 3

----------------------------------------------------------------------------
(* C17 *)

\* C17: after a run of add_documents, every position (url, doc_index,
\* chunk_index) of the input has exactly one stored entry, with the text of
\* the input; and when every position of the input had an entry before,
\* count() is what it was.
C17_ReingestOverwrites ==
    [][ (Calls("add_documents") /\ ~index_call'.raised) =>
            LET new == points_of(Val(vector_store).model_name, index_call'.input)
                before == IF collections[StoreCollection] = None THEN {}
                          ELSE Val(collections[StoreCollection]).points
                after == IF collections'[StoreCollection] = None THEN {}
                         ELSE Val(collections'[StoreCollection]).points
            IN  /\ \A n \in new :
                      /\ Cardinality({p \in after : SamePosition(p, n)}) = 1
                      /\ \A p \in after :
                            SamePosition(p, n) => p.payload.text = n.payload.text
                /\ (\A n \in new : \E p \in before : SamePosition(p, n)) =>
                      Cardinality(after) = Cardinality(before)
      ]_vars

----------------------------------------------------------------------------
(* C18 *)

\* C18: a construction of a VectorStore that ended without an error is over
\* a collection whose vector size is the dimension of the store's embedder.
C18_DimensionMismatchFails ==
    (index_call.op = "VectorStore" /\ ~index_call.raised) =>
        Val(collections[index_call.input[1]]).size =
            embedding_dimension(index_call.input[2])

----------------------------------------------------------------------------
(* C19 *)

\* C19: the construction of a VectorStore over a collection name that exists
\* leaves that collection (its entries, its count) as it was and calls no
\* create_collection; over a name that does not exist it creates an empty
\* collection; the other collections are left alone.
C19_CreationIdempotent ==
    [][ Calls("VectorStore") =>
            LET name == index_call'.input[1] IN
            /\ \A other \in CollectionNames \ {name} :
                  collections'[other] = collections[other]
            /\ IF collections[name] # None
               THEN /\ collections'[name] = collections[name]
                    /\ ~index_call'.created
               ELSE /\ index_call'.created
                    /\ collections'[name] # None
                    /\ Count(collections'[name]) = 0
      ]_vars

\* A VectorStore was constructed over the collection that holds the three
\* chunks of the crawl: no create, and the three are still there.
C19_Witness ==
    /\ index_call.op = "VectorStore" /\ ~index_call.created
    /\ ingested[index_call.input[1]] = <<raw_v1>>
    /\ Count(collections[index_call.input[1]]) = 3

----------------------------------------------------------------------------
(* C20 *)

\* C20: a retrieve(query, top_k) that returned gives min(top_k, count())
\* passages, each a stored entry with its similarity to the query vector,
\* no entry twice, in descending score order, no stored entry left out
\* scoring higher than one returned; and they are the entries the index
\* returned, all of them, in its order.
C20_RetrieveTopK ==
    (index_call.op = "retrieve" /\ ~index_call.raised) =>
        LET collection == Val(collections[StoreCollection])
            top_k == index_call.input[2]
            query_vector == embed(Val(vector_store).model_name, index_call.input[1])
            results == index_call.results
            returned == index_call.search_results
        IN  /\ Len(results) = Min(top_k, count(collection))
            /\ \A i \in DOMAIN results :
                  \E p \in collection.points :
                      /\ results[i].id = p.id
                      /\ results[i].text = p.payload.text
                      /\ results[i].url = p.payload.url
                      /\ results[i].score = cosine(query_vector, p.vector)
            /\ \A i, j \in DOMAIN results :
                  i < j => /\ results[i].id # results[j].id
                           /\ results[i].score >= results[j].score
            /\ \A p \in collection.points :
                  (\A i \in DOMAIN results : results[i].id # p.id) =>
                      \A i \in DOMAIN results :
                          cosine(query_vector, p.vector) <= results[i].score
            /\ Len(results) = Len(returned)
            /\ \A i \in DOMAIN results :
                  /\ results[i].id = returned[i].id
                  /\ results[i].score = returned[i].score
                  /\ results[i].text = returned[i].payload.text

\* Of the three stored chunks, retrieve with top_k = 2 returned the two
\* nearest to the query, the nearest first, and left the third out.
C20_Witness ==
    /\ index_call.op = "retrieve" /\ ~index_call.raised
    /\ index_call.input = <<"beton M400 harakteristiki", 2>>
    /\ Count(collections[StoreCollection]) = 3
    /\ Len(index_call.results) = 2
    /\ index_call.results[1].text = "beton M400"
    /\ index_call.results[2].text = "beton M300"
    /\ index_call.results[1].score > index_call.results[2].score

----------------------------------------------------------------------------
(* C21 *)

\* The score of a vector against itself: cosine similarity 1.
ScoreOne(v) == cosine(v, v)

\* C21: every passage returned by retrieve carries a score between 0 and 1,
\* whatever the query and the stored vectors.
C21_ScoreInUnitInterval ==
    (vector_store # None /\ index_call.op = "retrieve" /\ ~index_call.raised) =>
        LET query_vector == embed(Val(vector_store).model_name, index_call.input[1]) IN
        \A i \in DOMAIN index_call.results :
            /\ 0 <= index_call.results[i].score
            /\ index_call.results[i].score <= ScoreOne(query_vector)

----------------------------------------------------------------------------
(* C22 *)

\* The store set up last works on a collection that exists and holds no
\* entry.
EmptyIndex ==
    /\ vector_store # None
    /\ collections[StoreCollection] # None
    /\ Count(collections[StoreCollection]) = 0

\* C22: on an empty index the retrieval of an informational turn yields the
\* empty list and no error, and the turn answers with the fixed
\* nothing-found message as a normal response: not the apology, no
\* clarification asked, no failure.
C22_EmptyIndexNotFound ==
    [][ \A t \in Tasks :
          (pc[t] = "retrieving" /\ pc'[t] # "retrieving" /\ EmptyIndex) =>
              /\ generate(query[t]) = {Some(<<>>)}
              /\ pc'[t] = "responded"
              /\ response'[t] = Some(BotResponse(Message("not_found", <<>>), FALSE,
                                                 None, "informational"))
              /\ "retrieval" \notin failures'[t]
      ]_vars

\* A bot set up in memory on a data file with no usable record has answered
\* an informational turn with the nothing-found message.
C22_Witness ==
    /\ setup_call.n > 0 /\ setup_call.data_path = raw_none /\ setup_call.use_in_memory
    /\ EmptyIndex
    /\ pc[MainTask] = "responded"
    /\ query_type[MainTask] = "informational"
    /\ response[MainTask] = Some(RagResponse(Message("not_found", <<>>)))

----------------------------------------------------------------------------
(* C23 *)

\* The url and doc_index of the entries of an Optional[collection].
Positions(o) ==
    IF o = None THEN {}
    ELSE {<<p.payload.url, p.payload.doc_index>> : p \in Val(o).points}

\* The url of every record of the sequence with its index, counted from 0.
Numbered(documents) == {<<documents[d].url, d - 1>> : d \in DOMAIN documents}

\* The records with non-empty content and a null error, in file order.
NullErrorRecords(jsonl) ==
    SelectSeq(jsonl, LAMBDA doc : doc.content # <<>> /\ doc.error = None)

\* The records with non-empty content and an error that is null or the
\* empty string, in file order.
NoErrorRecords(jsonl) ==
    SelectSeq(jsonl, LAMBDA doc : doc.content # <<>> /\ doc.error \in {None, Some("")})

\* C23 as stated: a run of add_documents on a collection with no entry
\* leaves entries for exactly the records with non-empty content and a null
\* error, numbered in file order, and none for a record with a non-null
\* error or with empty content.
C23_IngestionFilter ==
    [][ ( /\ Calls("add_documents") /\ ~index_call'.raised
          /\ Count(collections[StoreCollection]) = 0 ) =>
            LET jsonl == index_call'.input IN
            /\ Positions(collections'[StoreCollection])
                 = Numbered(NullErrorRecords(jsonl))
            /\ \A i \in DOMAIN jsonl :
                  (jsonl[i].error # None \/ jsonl[i].content = <<>>) =>
                      \A position \in Positions(collections'[StoreCollection]) :
                          position[1] # jsonl[i].url
      ]_vars

\* C23 amended: the records kept are those with non-empty content and an
\* error that is null or the empty string; a record with a non-empty error
\* or with empty content leaves no entry.
C23_IngestionFilterAmended ==
    [][ ( /\ Calls("add_documents") /\ ~index_call'.raised
          /\ Count(collections[StoreCollection]) = 0 ) =>
            LET jsonl == index_call'.input IN
            /\ Positions(collections'[StoreCollection])
                 = Numbered(NoErrorRecords(jsonl))
            /\ \A i \in DOMAIN jsonl :
                  (Truthy(jsonl[i].error) \/ jsonl[i].content = <<>>) =>
                      \A position \in Positions(collections'[StoreCollection]) :
                          position[1] # jsonl[i].url
      ]_vars

\* add_documents has run, on a collection with no entry, on the crawl with
\* a failed and an empty record before the usable one: the only entry is of
\* the third record, numbered 0.
C23_Witness ==
    /\ vector_store # None
    /\ index_call.op = "add_documents" /\ ~index_call.raised
    /\ index_call.input = raw_err
    /\ ingested[StoreCollection] = <<raw_err>>
    /\ Positions(collections[StoreCollection]) = {<<"u/sheben", 0>>}

----------------------------------------------------------------------------
(* C24 *)

----------------------------------------------------------------------------
(* C25 *)

\* The call is at a collaborator call: classification, retrieval,
\* extraction, clarification or the catalog lookup.
InCollaboratorCall(t) ==
    pc[t] \in {"classifying", "retrieving", "extracting", "clarifying", "fulfilling"}

\* C25: while a turn for one session stays in a collaborator call that does
\* not return, a turn for another session that takes its steps reaches its
\* response: it does not end without one.
C25_StallBlocksOwnTurnOnly ==
    [][ \A a, b \in Tasks :
          ( /\ a # b /\ sid[a] # sid[b]
            /\ InCollaboratorCall(a) /\ pc'[a] = pc[a]
            /\ pc[b] # "idle" /\ pc'[b] = "idle" ) =>
              pc[b] = "responded"
      ]_vars

----------------------------------------------------------------------------
(* Vocabulary of the properties of the set-up *)

\* The collection setup_rag_system works on (setup_rag.py lines 132, 153).
SetupCollection == "construction_materials"

\* The step is a call of setup_rag_system.
SetupStep == setup_call'.n # setup_call.n

\* The collections of the client storing at the given place: those of the
\* shared client when it stores there, else those left on disk, none for a
\* new in-memory client.
StoreAt(place) ==
    IF shared_qdrant_client = Some(place) THEN collections
    ELSE IF place \in StoragePaths THEN storage[place]
    ELSE NoCollections

\* The id and text of every chunk of a data file.
ChunkTexts(embedding_model, data_path) ==
    {<<p.id, p.payload.text>> : p \in points_of(embedding_model, data_path)}

----------------------------------------------------------------------------
(* C26 *)

\* C26: a call of setup_rag_system calls add_documents exactly when the
\* collection of the store it works on holds no entry; then, unless the
\* ingestion raises, the entries are the chunks of the data file; and a call
\* on a store that holds an entry leaves the store, count() and every entry,
\* as it was. So once a set-up has stored a chunk, further set-ups on that
\* store change nothing.
C26_SetupIngestsOnce ==
    [][ SetupStep =>
          LET before == StoreAt(setup_call'.client)[SetupCollection]
              after == collections'[SetupCollection]
          IN  /\ setup_call'.loaded <=> (Count(before) = 0)
              /\ (Count(before) = 0 /\ ~setup_call'.raised) =>
                    Texts(after) = ChunkTexts(setup_call'.embedding_model,
                                              setup_call'.data_path)
              /\ Count(before) > 0 =>
                    /\ ~setup_call'.raised
                    /\ after = before
                    /\ Count(after) = Count(before)
      ]_vars

\* A second set-up, on another data file, has found the three chunks of the
\* first in the store and loaded nothing.
C26_Witness ==
    /\ setup_call.n = 2
    /\ setup_call.data_path = raw_v2
    /\ ~setup_call.loaded /\ ~setup_call.raised
    /\ setup_call.points_count = 3
    /\ Texts(collections[SetupCollection]) = ChunkTexts(setup_call.embedding_model, raw_v1)

----------------------------------------------------------------------------
(* C28 *)

\* C28: whatever the earlier calls of setup_rag_system in the process, a
\* call with use_in_memory = True works on an in-memory client and a call
\* with use_in_memory = False and storage path P on a persistent client
\* opened at P.
C28_ClientOfRequestedMode ==
    setup_call.n > 0 =>
        IF setup_call.use_in_memory
        THEN setup_call.client = InMemory
        ELSE setup_call.client = setup_call.qdrant_storage_path

----------------------------------------------------------------------------
(* C27 *)

\* C27: on the merged specification of every turn is_complete() is true
\* exactly when get_missing_fields() is empty; the specification given to the
\* catalog has no missing field, and the missing-field list given to the
\* clarification is not empty.
C27_CompletenessAgrees ==
    \A t \in Tasks :
        /\ extracted_specs[t] # None =>
              (is_complete(Val(extracted_specs[t]))
                 <=> get_missing_fields(Val(extracted_specs[t])) = <<>>)
        /\ catalog_call[t] # None =>
              get_missing_fields(Val(catalog_call[t])) = <<>>
        /\ clarify_call[t] # None =>
              Val(clarify_call[t]).missing_fields # <<>>

----------------------------------------------------------------------------
(* C29 *)

\* The product matches the specification: it is of the type the
\* specification names, and the mark (fraction) it carries is the one the
\* specification names, if both are there.
MatchesSpecification(product, specs) ==
    /\ Truthy(specs.product_type) =>
          LowerWord(product.product_type) = LowerWord(Val(specs.product_type))
    /\ ( /\ Truthy(product.mark)
         /\ specs.characteristics # None
         /\ Truthy(Val(specs.characteristics).mark) ) =>
            product.mark = Val(specs.characteristics).mark
    /\ ( /\ Truthy(product.fraction)
         /\ specs.characteristics # None
         /\ Truthy(Val(specs.characteristics).fraction) ) =>
            product.fraction = Val(specs.characteristics).fraction

\* C29: every product get_products returned in a turn matches the
\* specification it was called with.
C29_ProductsMatch ==
    \A t \in Tasks :
        (catalog_call[t] # None /\ catalog_result[t] # None) =>
            \A i \in DOMAIN Val(catalog_result[t]) :
                MatchesSpecification(Val(catalog_result[t])[i], Val(catalog_call[t]))


----------------------------------------------------------------------------
(* C30 *)

\* A step is a call of seed_from_json.
SeedStep == seed_call'.n = seed_call.n + 1

\* The seed files of a directory.
SeedFilesOf(seeds_dir) == {f \in seeds_dir : endswith_json(f)}

\* The offers of the store with the given id.
OffersOf(db, store_id) == {i \in DOMAIN db.offers : db.offers[i].store_id = store_id}

\* C30: seed_from_json loads every .json file of seeds_dir: a call does not
\* raise, an empty directory included, and it adds one Store for each .json
\* file of the directory, named as the file says and with one StoreProduct
\* offer for each product the file lists.
C30_SeedsEveryFile ==
    [][SeedStep =>
        LET files == SeedFilesOf(seed_call'.seeds_dir)
            added == (Len(product_db.stores) + 1)..Len(product_db'.stores)
        IN  /\ ~seed_call'.raised
            /\ Cardinality(added) = Cardinality(files)
            /\ \A f \in files : \E store_id \in added :
                  /\ product_db'.stores[store_id].name = f.store_name
                  /\ Cardinality(OffersOf(product_db', store_id)) = Len(f.products)]_vars


====
